---- MODULE Spec2Model ----
(***************************************************************************)
(* Model of the website analyzer: the request handlers, analyzeWebsite,    *)
(* its detectors and generateArchitectureDiagram.                          *)
(*                                                                         *)
(* A JavaScript string that the code formats, concatenates or escapes is   *)
(* a sequence of tokens: "Unknown" is <<"Unknown">>, the empty string is    *)
(* <<>>, and a template literal is the concatenation of its parts.         *)
(* The raw HTML of a page is the set of text fragments it contains, and    *)
(* the parsed document is the set of element nodes the selectors of the    *)
(* detectors can see.  The two are independent: a character reference in   *)
(* an attribute (href="boot&#115;trap.css") gives a node whose value has   *)
(* the keyword while the raw text has not.                                 *)
(***************************************************************************)
EXTENDS Integers, Sequences, FiniteSets, TLC

VARIABLES
    entry,      \* the entry point that received the request
    method,     \* req.method
    bodyUrl,    \* req.body.url, by kind
    pc,         \* position of the running handler / function
    calls,      \* the calls made to the HTTP client (axios.get), in order
    primary,    \* how the primary GET ended
    page,       \* the page the primary GET returned (NoPage before)
    headers,    \* the response headers of the primary GET
    hostReply,  \* how the hosting-lookup API call ended
    hostingProvider, \* analyzeWebsite's local hostingProvider
    vals,       \* the property values evaluated so far (key -> value)
    thrown,     \* the message of the error analyzeWebsite threw (None if none)
    result,     \* what analyzeWebsite returned
    res,        \* the HTTP responses sent, in order
    diagram,    \* the value generateArchitectureDiagram returned
    built       \* the calls of generateArchitectureDiagram so far: report and result

vars == <<entry, method, bodyUrl, pc, calls, primary, page, headers, hostReply,
          hostingProvider, vals, thrown, result, res, diagram, built>>

None == <<"none">>
NoOutcome == [kind |-> "none"]
Fetched == [kind |-> "ok"]
Failed(e) == [kind |-> "failed", error |-> e]
NoResult == [returned |-> FALSE]
NoPage == [words |-> {}, nodes |-> {}, loaded |-> FALSE]

-----------------------------------------------------------------------------
(* Bounds *)

\* most text fragments of the pool in one page's raw HTML
MaxWords == 3
\* most element nodes of the pool in one page's document
MaxNodes == 1
\* most headers of the pool in one response
MaxHeaders == 2
\* most items in one list-valued category of a report
MaxItems == 2
\* most list-valued categories of one report that are not empty
MaxListed == 1

-----------------------------------------------------------------------------
(* Strings *)

S(x) == <<x>>
EmptyStr == <<>>
Unknown == S("Unknown")

\* the value undefined (not a string)
Undefined == <<"#undefined">>

\* JavaScript truthiness of a string value or undefined
Truthy(s) == s # EmptyStr /\ s # Undefined

\* a value inside a template literal
Render(v) == IF v = Undefined THEN S("undefined") ELSE v

\* s.includes(w), on tokens
StrIncludes(s, w) == \E i \in 1..Len(s) : s[i] = w

\* text fragments a page's raw HTML is built from
WordPool ==
    { "bootstrap", "react", "wp-content", "Drupal", "hubspot",
      "js.hubspot.com", "shopify", "magento", "analytics.js",
      "__NEXT_DATA__", "window.__INITIAL_STATE__" }

\* element nodes a document is built from: tag, the qualifying attribute
\* (rel of a link, name of a meta) and the probed attribute's value
\* (href of a link, src of a script, content of a meta)
NodePool ==
    { [tag |-> "link",   qual |-> "stylesheet", val |-> "bootstrap.min.css"],
      [tag |-> "link",   qual |-> "stylesheet", val |-> "cdn.shopify.com"],
      [tag |-> "script", qual |-> "",           val |-> "react.production.min.js"],
      [tag |-> "script", qual |-> "",           val |-> "/_next/static/main.js"],
      [tag |-> "script", qual |-> "",           val |-> "js/magento/mage.js"],
      [tag |-> "script", qual |-> "",           val |-> "gatsby-browser.js"],
      [tag |-> "meta",   qual |-> "generator",  val |-> "WordPress"],
      [tag |-> "meta",   qual |-> "generator",  val |-> "Drupal"] }

\* String.prototype.includes between a rule keyword and a pool text: the
\* pairs <<k, w>> with k a proper substring of w (every other pair of a
\* keyword and a different pool text is not a substring)
SubPairs ==
    { <<"hubspot", "js.hubspot.com">>,
      <<"shopify", "cdn.shopify.com">>,
      <<"next", "/_next/static/main.js">>,
      <<"bootstrap", "bootstrap.min.css">>,
      <<"react", "react.production.min.js">>,
      <<"gatsby", "gatsby-browser.js">>,
      <<"magento", "js/magento/mage.js">> }

IsSub(k, w) == k = w \/ <<k, w>> \in SubPairs

\* html.includes(keyword)
Includes(p, keyword) == \E w \in p.words : IsSub(keyword, w)

\* a selector: tag[qual-attribute = qual][probed-attribute op arg]
Sel(tag, qual, op, arg) == [tag |-> tag, qual |-> qual, op |-> op, arg |-> arg]

Matches(sel, n) ==
    /\ n.tag = sel.tag
    /\ (sel.qual = "*" \/ n.qual = sel.qual)
    /\ IF sel.op = "contains" THEN IsSub(sel.arg, n.val) ELSE n.val = sel.arg

\* doc.querySelector(selector) is not null
QuerySelector(p, sel) == \E n \in p.nodes : Matches(sel, n)

LinkHref(k)   == Sel("link", "*", "contains", k)
ScriptSrc(k)  == Sel("script", "*", "contains", k)
Generator(k)  == Sel("meta", "generator", "contains", k)
MetaContent(k) == Sel("meta", "*", "equals", k)

Pages ==
    { [words |-> w, nodes |-> n, loaded |-> TRUE] :
        w \in { x \in SUBSET WordPool : Cardinality(x) <= MaxWords },
        n \in { y \in SUBSET NodePool : Cardinality(y) <= MaxNodes } }

-----------------------------------------------------------------------------
(* Rule tables and detectors *)

Rule(name, keyword) == [name |-> S(name), keyword |-> keyword]

cssFrameworks ==
    << Rule("Bootstrap", "bootstrap"), Rule("Tailwind CSS", "tailwind"),
       Rule("Bulma", "bulma"), Rule("Foundation", "foundation"),
       Rule("Materialize", "materialize"), Rule("Semantic UI", "semantic-ui"),
       Rule("Ant Design", "ant-design"), Rule("Material UI", "material-ui"),
       Rule("Chakra UI", "chakra-ui") >>

jsLibraries ==
    << Rule("React", "react"), Rule("jQuery", "jquery"), Rule("Vue.js", "vue"),
       Rule("Angular", "angular"), Rule("Lodash", "lodash"),
       Rule("Moment.js", "moment"), Rule("Axios", "axios"), Rule("D3.js", "d3"),
       Rule("Redux", "redux"), Rule("Next.js", "next"), Rule("Gatsby", "gatsby"),
       Rule("Ember", "ember"), Rule("Svelte", "svelte"), Rule("Nuxt.js", "nuxt"),
       Rule("Apollo GraphQL", "apollo"), Rule("Three.js", "three") >>

\* the predicate of one css rule
CssRuleFires(p, r) == Includes(p, r.keyword) \/ QuerySelector(p, LinkHref(r.keyword))

\* the predicate of one js rule
JsRuleFires(p, r) == Includes(p, r.keyword) \/ QuerySelector(p, ScriptSrc(r.keyword))

\* forEach over a table, pushing the name of each rule whose predicate
\* holds; fires[i] is the value of rule i's predicate
RECURSIVE PushMatches(_, _, _, _)
PushMatches(table, fires, i, acc) ==
    IF i > Len(table) THEN acc
    ELSE PushMatches(table, fires, i + 1,
                     IF fires[i] THEN Append(acc, table[i].name) ELSE acc)

detectCssFrameworks(p) ==
    PushMatches(cssFrameworks,
                [i \in 1..Len(cssFrameworks) |-> CssRuleFires(p, cssFrameworks[i])],
                1, <<>>)

\* mutant: the loop stops at the first rule that matches
detectJavascriptLibraries_FirstOnly(p) ==
    LET all == PushMatches(jsLibraries,
                           [i \in 1..Len(jsLibraries) |-> JsRuleFires(p, jsLibraries[i])],
                           1, <<>>)
    IN  IF all = <<>> THEN <<>> ELSE << all[1] >>

detectJavascriptLibraries(p) ==
    PushMatches(jsLibraries,
                [i \in 1..Len(jsLibraries) |-> JsRuleFires(p, jsLibraries[i])],
                1, <<>>)

CmsWordPressFires(p) == Includes(p, "wp-content") \/ QuerySelector(p, Generator("WordPress"))
CmsDrupalFires(p)    == Includes(p, "Drupal")     \/ QuerySelector(p, Generator("Drupal"))
CmsJoomlaFires(p)    == Includes(p, "Joomla")     \/ QuerySelector(p, Generator("Joomla"))
CmsGhostFires(p)     == Includes(p, "ghost")      \/ QuerySelector(p, Generator("Ghost"))
CmsContentfulFires(p) == Includes(p, "contentful") \/ QuerySelector(p, Generator("Contentful"))
CmsHubSpotFires(p)   == Includes(p, "hubspot")    \/ QuerySelector(p, Generator("HubSpot"))

\* mutant: the Drupal test moved in front of the WordPress test
detectCMS_DrupalFirst(p) ==
    IF CmsDrupalFires(p) THEN S("Drupal")
    ELSE IF CmsWordPressFires(p) THEN S("WordPress")
    ELSE IF CmsJoomlaFires(p) THEN S("Joomla")
    ELSE IF CmsGhostFires(p) THEN S("Ghost")
    ELSE IF CmsContentfulFires(p) THEN S("Contentful")
    ELSE IF CmsHubSpotFires(p) THEN S("HubSpot")
    ELSE Unknown

detectCMS(p) ==
    IF CmsWordPressFires(p) THEN S("WordPress")
    ELSE IF CmsDrupalFires(p) THEN S("Drupal")
    ELSE IF CmsJoomlaFires(p) THEN S("Joomla")
    ELSE IF CmsGhostFires(p) THEN S("Ghost")
    ELSE IF CmsContentfulFires(p) THEN S("Contentful")
    ELSE IF CmsHubSpotFires(p) THEN S("HubSpot")
    ELSE Unknown

Platform(name, keyword, selector) ==
    [name |-> S(name), keywords |-> <<keyword>>, selector |-> selector]

ecommercePlatforms ==
    << Platform("Shopify", "shopify", LinkHref("shopify")),
       Platform("Magento", "magento", ScriptSrc("magento")),
       Platform("WooCommerce", "woocommerce", LinkHref("woocommerce")),
       Platform("BigCommerce", "bigcommerce",
                Sel("link", "stylesheet", "contains", "bigcommerce.com")),
       Platform("PrestaShop", "prestashop", Generator("PrestaShop")),
       Platform("Squarespace", "squarespace", Generator("Squarespace")),
       Platform("Wix", "wixstores", Generator("Wix.com")),
       Platform("Volusion", "volusion", ScriptSrc("volusion")),
       Platform("3dcart", "3dcart", ScriptSrc("3dcart")),
       Platform("OpenCart", "opencart", Generator("OpenCart")),
       Platform("Zen Cart", "zen-cart", Generator("Zen Cart")),
       Platform("Squarespace", "squarespace", Generator("Squarespace")),
       Platform("Weebly", "weebly", Generator("Weebly")),
       Platform("Big Cartel", "bigcartel", Generator("Big Cartel")),
       Platform("Yahoo Small Business", "yahoodotcom",
                Generator("Yahoo Small Business")),
       Platform("Ecwid", "ecwid", ScriptSrc("ecwid")),
       Platform("osCommerce", "oscommerce", Generator("osCommerce")),
       Platform("Lightspeed", "lightspeed", Generator("LightSpeed")),
       Platform("Shopware", "shopware", Generator("Shopware")),
       Platform("Hybris", "hybris", ScriptSrc("hybris")),
       Platform("Demandware", "demandware", ScriptSrc("demandware")) >>

\* mutant: the two signals joined by && instead of ||
PlatformFires_And(p, platform) ==
    /\ \E i \in 1..Len(platform.keywords) : Includes(p, platform.keywords[i])
    /\ QuerySelector(p, platform.selector)

\* the predicate of one e-commerce rule
PlatformFires(p, platform) ==
    \/ \E i \in 1..Len(platform.keywords) : Includes(p, platform.keywords[i])
    \/ QuerySelector(p, platform.selector)

\* for (const platform of ecommercePlatforms): return at the first hit
RECURSIVE FirstPlatform(_, _)
FirstPlatform(p, i) ==
    IF i > Len(ecommercePlatforms) THEN Unknown
    ELSE IF PlatformFires(p, ecommercePlatforms[i]) THEN ecommercePlatforms[i].name
    ELSE FirstPlatform(p, i + 1)

detectEcommercePlatform(p) == FirstPlatform(p, 1)

Tech(name, keyword, regex) == [name |-> S(name), keyword |-> keyword, regex |-> regex]

\* regex holds the literal text the rule's pattern matches (each pattern
\* is a literal with its dots escaped)
techs ==
    << Tech("Google Analytics", "google-analytics", "analytics.js"),
       Tech("Google Tag Manager", "gtm", "gtm.js"),
       Tech("Facebook Pixel", "fbevents", "fbevents.js"),
       Tech("Hotjar", "hotjar", "static.hotjar.com"),
       Tech("HubSpot", "hubspot", "js.hubspot.com"),
       Tech("Marketo", "marketo", "marketo.com"),
       Tech("Salesforce", "salesforce", "salesforce.com"),
       Tech("Mixpanel", "mixpanel", "cdn.mixpanel.com"),
       Tech("Crazy Egg", "crazyegg", "crazyegg.com"),
       Tech("Intercom", "intercom", "intercom.io"),
       Tech("Kissmetrics", "kissmetrics", "i.kissmetrics.com"),
       Tech("Heap Analytics", "heap-analytics", "heap.js"),
       Tech("Segment", "segment", "segment.js"),
       Tech("Optimizely", "optimizely", "optimizely.js") >>

\* the predicate of one marketing rule
TechFires(p, r) ==
    \/ Includes(p, r.keyword)
    \/ QuerySelector(p, ScriptSrc(r.keyword))
    \/ Includes(p, r.regex)

detectMarketingTechnologies(p) ==
    PushMatches(techs, [i \in 1..Len(techs) |-> TechFires(p, techs[i])], 1, <<>>)

\* mutant: the SPA markers are tested before the SSR and SSG markers
detectArchitecture_SpaFirst(p) ==
    IF \/ QuerySelector(p, ScriptSrc("single-spa"))
       \/ QuerySelector(p, ScriptSrc("react"))
       \/ Includes(p, "window.__INITIAL_STATE__")
       \/ QuerySelector(p, ScriptSrc("angular")) \/ Includes(p, "ng-version")
       \/ QuerySelector(p, ScriptSrc("vue"))
    THEN S("SPA (Single Page Application)")
    ELSE IF QuerySelector(p, ScriptSrc("next")) \/ Includes(p, "__NEXT_DATA__")
    THEN S("SSR (Server-Side Rendering)")
    ELSE IF \/ QuerySelector(p, ScriptSrc("gatsby")) \/ QuerySelector(p, MetaContent("Gatsby"))
            \/ QuerySelector(p, ScriptSrc("jekyll")) \/ QuerySelector(p, MetaContent("Jekyll"))
            \/ QuerySelector(p, ScriptSrc("hugo")) \/ QuerySelector(p, MetaContent("Hugo"))
    THEN S("SSG (Static Site Generation)")
    ELSE S("MPA (Multi-Page Application)")

detectArchitecture(p) ==
    IF QuerySelector(p, ScriptSrc("next")) \/ Includes(p, "__NEXT_DATA__")
    THEN S("SSR (Server-Side Rendering)")
    ELSE IF QuerySelector(p, ScriptSrc("gatsby")) \/ QuerySelector(p, MetaContent("Gatsby"))
    THEN S("SSG (Static Site Generation)")
    ELSE IF QuerySelector(p, ScriptSrc("jekyll")) \/ QuerySelector(p, MetaContent("Jekyll"))
    THEN S("SSG (Static Site Generation)")
    ELSE IF QuerySelector(p, ScriptSrc("hugo")) \/ QuerySelector(p, MetaContent("Hugo"))
    THEN S("SSG (Static Site Generation)")
    ELSE IF \/ QuerySelector(p, ScriptSrc("single-spa"))
            \/ QuerySelector(p, ScriptSrc("react"))
            \/ Includes(p, "window.__INITIAL_STATE__")
    THEN S("SPA (Single Page Application)")
    ELSE IF QuerySelector(p, ScriptSrc("angular")) \/ Includes(p, "ng-version")
    THEN S("SPA (Single Page Application)")
    ELSE IF QuerySelector(p, ScriptSrc("vue")) \/ Includes(p, "window.__INITIAL_STATE__")
    THEN S("SPA (Single Page Application)")
    ELSE S("MPA (Multi-Page Application)")

-----------------------------------------------------------------------------
(* The detectors applied to one page, in the order analyzeWebsite's object *)
(* literal applies them                                                    *)

NoVals == [k \in {} |-> None]
Has(k) == k \in DOMAIN vals
Put(k, v) == vals' = vals @@ (k :> v)
Range(s) == { s[i] : i \in 1..Len(s) }

Idle ==
    /\ entry = "none" /\ method = "none" /\ bodyUrl = None
    /\ calls = <<>> /\ primary = NoOutcome /\ hostReply = NoOutcome
    /\ hostingProvider = None /\ thrown = None /\ result = NoResult
    /\ res = <<>> /\ diagram = None /\ built = <<>>

InitDetect ==
    /\ Idle
    /\ pc = "detect"
    /\ page \in Pages
    /\ headers = <<>>
    /\ vals = NoVals

DetectFrame == UNCHANGED <<entry, method, bodyUrl, pc, calls, primary, page,
                           headers, hostReply, hostingProvider, thrown, result,
                           res, diagram, built>>

Apply_detectCssFrameworks ==
    /\ pc = "detect" /\ ~Has("css_frameworks")
    /\ Put("css_frameworks", detectCssFrameworks(page))
    /\ DetectFrame

Apply_detectJavascriptLibraries ==
    /\ pc = "detect" /\ Has("css_frameworks") /\ ~Has("javascript_libraries")
    /\ Put("javascript_libraries", detectJavascriptLibraries(page))
    /\ DetectFrame

Apply_detectCMS ==
    /\ pc = "detect" /\ Has("javascript_libraries") /\ ~Has("cms")
    /\ Put("cms", detectCMS(page))
    /\ DetectFrame

Apply_detectEcommercePlatform ==
    /\ pc = "detect" /\ Has("cms") /\ ~Has("ecommerce_platform")
    /\ Put("ecommerce_platform", detectEcommercePlatform(page))
    /\ DetectFrame

Apply_detectArchitecture ==
    /\ pc = "detect" /\ Has("ecommerce_platform") /\ ~Has("architecture")
    /\ Put("architecture", detectArchitecture(page))
    /\ DetectFrame

Apply_detectMarketingTechnologies ==
    /\ pc = "detect" /\ Has("architecture") /\ ~Has("marketing_technologies")
    /\ Put("marketing_technologies", detectMarketingTechnologies(page))
    /\ DetectFrame

NextDetect ==
    \/ Apply_detectCssFrameworks
    \/ Apply_detectJavascriptLibraries
    \/ Apply_detectCMS
    \/ Apply_detectEcommercePlatform
    \/ Apply_detectArchitecture
    \/ Apply_detectMarketingTechnologies

SpecDetect == InitDetect /\ [][NextDetect]_vars

-----------------------------------------------------------------------------
(* C7, C8: the keyword-style detectors *)

\* the rules of detectCMS as a table: label, keyword, generator text
CmsRules ==
    << <<"WordPress", "wp-content", "WordPress">>,
       <<"Drupal", "Drupal", "Drupal">>,
       <<"Joomla", "Joomla", "Joomla">>,
       <<"Ghost", "ghost", "Ghost">>,
       <<"Contentful", "contentful", "Contentful">>,
       <<"HubSpot", "hubspot", "HubSpot">> >>

CmsKw(i)  == Includes(page, CmsRules[i][2])
CmsSel(i) == QuerySelector(page, Generator(CmsRules[i][3]))
EcomKw(i)  == Includes(page, ecommercePlatforms[i].keywords[1])
EcomSel(i) == QuerySelector(page, ecommercePlatforms[i].selector)

\* exactly one of the two signals of a rule is present
OneAlone(kw, sel) == (kw /\ ~sel) \/ (sel /\ ~kw)

\* a multi-match detector lists the rule's label when one signal is present
\* alone, and leaves it out only when both are absent; tag is the element
\* the rule's selector probes
MultiOr(out, table, tag) ==
    \A i \in 1..Len(table) :
        LET kw  == Includes(page, table[i].keyword)
            sel == QuerySelector(page, Sel(tag, "*", "contains", table[i].keyword))
        IN /\ OneAlone(kw, sel) => table[i].name \in Range(out)
           /\ table[i].name \notin Range(out) => (~kw /\ ~sel)

\* C7: in every keyword-style detector a rule fires when its keyword is in
\* the raw HTML and its selector matches nothing, fires when its selector
\* matches and the HTML lacks the keyword, and does not fire only when both
\* signals are absent.  For the list detectors firing is the label being in
\* the result; for detectCMS and detectEcommercePlatform it is the result
\* being the rule's label when no earlier rule has a signal, and the result
\* is "Unknown" only when no rule has either signal.
C7_EitherSignalAloneFires ==
    /\ Has("css_frameworks") =>
         MultiOr(vals["css_frameworks"], cssFrameworks, "link")
    /\ Has("javascript_libraries") =>
         MultiOr(vals["javascript_libraries"], jsLibraries, "script")
    /\ Has("marketing_technologies") =>
         MultiOr(vals["marketing_technologies"], techs, "script")
    /\ Has("cms") =>
         /\ \A i \in 1..Len(CmsRules) :
               (OneAlone(CmsKw(i), CmsSel(i))
                  /\ \A j \in 1..(i - 1) : ~CmsKw(j) /\ ~CmsSel(j))
               => vals["cms"] = S(CmsRules[i][1])
         /\ vals["cms"] = Unknown =>
               \A i \in 1..Len(CmsRules) : ~CmsKw(i) /\ ~CmsSel(i)
    /\ Has("ecommerce_platform") =>
         /\ \A i \in 1..Len(ecommercePlatforms) :
               (OneAlone(EcomKw(i), EcomSel(i))
                  /\ \A j \in 1..(i - 1) : ~EcomKw(j) /\ ~EcomSel(j))
               => vals["ecommerce_platform"] = ecommercePlatforms[i].name
         /\ vals["ecommerce_platform"] = Unknown =>
               \A i \in 1..Len(ecommercePlatforms) : ~EcomKw(i) /\ ~EcomSel(i)

\* a page where a selector of one rule matches while the HTML lacks its
\* keyword, a keyword of another is present while its selector matches
\* nothing, and the detectors have run
C7_Witness ==
    /\ Has("marketing_technologies")
    /\ EcomSel(2) /\ ~EcomKw(2) /\ ~EcomKw(1) /\ ~EcomSel(1)
    /\ vals["ecommerce_platform"] = S("Magento")
    /\ Includes(page, "bootstrap") /\ ~QuerySelector(page, LinkHref("bootstrap"))
    /\ vals["css_frameworks"] = <<S("Bootstrap")>>

CmsTrue(i)  == CmsKw(i) \/ CmsSel(i)
EcomTrue(i) == EcomKw(i) \/ EcomSel(i)

\* the index of the lowest true entry of a sequence of booleans, 0 when
\* none is true
Lowest(true) ==
    IF \E i \in 1..Len(true) : true[i]
    THEN CHOOSE i \in 1..Len(true) : true[i] /\ \A j \in 1..(i - 1) : ~true[j]
    ELSE 0

CmsLowest  == Lowest([i \in 1..Len(CmsRules) |-> CmsTrue(i)])
EcomLowest == Lowest([i \in 1..Len(ecommercePlatforms) |-> EcomTrue(i)])

\* C8: detectCMS and detectEcommercePlatform return the label of the
\* lowest-indexed rule whose predicate is true, and "Unknown" if and only
\* if no rule's predicate is true.
C8_EarliestRuleWins ==
    /\ Has("cms") =>
         /\ CmsLowest > 0 => vals["cms"] = S(CmsRules[CmsLowest][1])
         /\ (vals["cms"] = Unknown) <=> (CmsLowest = 0)
    /\ Has("ecommerce_platform") =>
         /\ EcomLowest > 0 =>
              vals["ecommerce_platform"] = ecommercePlatforms[EcomLowest].name
         /\ (vals["ecommerce_platform"] = Unknown) <=> (EcomLowest = 0)

\* two rules of each single-match detector are true and the earlier one won
C8_Witness ==
    /\ Has("ecommerce_platform")
    /\ CmsTrue(1) /\ CmsTrue(2) /\ vals["cms"] = S("WordPress")
    /\ EcomTrue(1) /\ EcomTrue(2) /\ vals["ecommerce_platform"] = S("Shopify")

\* the rules of each multi-match table whose predicate is true of the page
CssTrue ==
    { i \in 1..Len(cssFrameworks) :
        \/ Includes(page, cssFrameworks[i].keyword)
        \/ QuerySelector(page, LinkHref(cssFrameworks[i].keyword)) }
JsTrue ==
    { i \in 1..Len(jsLibraries) :
        \/ Includes(page, jsLibraries[i].keyword)
        \/ QuerySelector(page, ScriptSrc(jsLibraries[i].keyword)) }
MarketingTrue ==
    { i \in 1..Len(techs) :
        \/ Includes(page, techs[i].keyword)
        \/ QuerySelector(page, ScriptSrc(techs[i].keyword))
        \/ Includes(page, techs[i].regex) }

\* out lists the labels of the rules in true, lowest rule first, once each
LabelsInOrder(out, table, true) ==
    /\ Len(out) = Cardinality(true)
    /\ \A j \in 1..Len(out) :
         \E i \in true : /\ Cardinality({ x \in true : x < i }) = j - 1
                         /\ out[j] = table[i].name
    /\ true = {} => out = <<>>

\* C15: each multi-match detector returns the labels of exactly the rules
\* whose predicate is true, in the order of its rule table, one label per
\* true rule, and the empty list when no rule is true.
C15_AllMatchesInTableOrder ==
    /\ Has("css_frameworks") => LabelsInOrder(vals["css_frameworks"], cssFrameworks, CssTrue)
    /\ Has("javascript_libraries") =>
           LabelsInOrder(vals["javascript_libraries"], jsLibraries, JsTrue)
    /\ Has("marketing_technologies") =>
           LabelsInOrder(vals["marketing_technologies"], techs, MarketingTrue)

\* a page on which two js rules and two marketing rules are true and no
\* css rule is
C15_Witness ==
    /\ Has("marketing_technologies")
    /\ vals["css_frameworks"] = <<>>
    /\ vals["javascript_libraries"] = << S("React"), S("Next.js") >>
    /\ vals["marketing_technologies"] = << S("Google Analytics"), S("HubSpot") >>

\* the markers of each architecture style
SsrMarker == QuerySelector(page, ScriptSrc("next")) \/ Includes(page, "__NEXT_DATA__")
SsgMarker ==
    \E g \in { <<"gatsby", "Gatsby">>, <<"jekyll", "Jekyll">>, <<"hugo", "Hugo">> } :
        QuerySelector(page, ScriptSrc(g[1])) \/ QuerySelector(page, MetaContent(g[2]))
SpaMarker ==
    \/ \E f \in { "single-spa", "react", "angular", "vue" } : QuerySelector(page, ScriptSrc(f))
    \/ Includes(page, "window.__INITIAL_STATE__")
    \/ Includes(page, "ng-version")

\* C16: detectArchitecture answers SSR when an SSR marker is present,
\* whatever else is; SSG when an SSG marker is present and no SSR marker;
\* SPA when an SPA marker is present and neither of the former; and MPA
\* only when no marker of any kind is present.
C16_ArchitectureDecisionList ==
    Has("architecture") =>
        LET arch == vals["architecture"]
        IN  /\ SsrMarker => arch = S("SSR (Server-Side Rendering)")
            /\ (SsgMarker /\ ~SsrMarker) => arch = S("SSG (Static Site Generation)")
            /\ (SpaMarker /\ ~SsrMarker /\ ~SsgMarker) =>
                   arch = S("SPA (Single Page Application)")
            /\ arch = S("MPA (Multi-Page Application)") <=>
                   (~SsrMarker /\ ~SsgMarker /\ ~SpaMarker)

\* a page with markers of all three kinds
C16_Witness ==
    /\ Has("architecture")
    /\ SsrMarker /\ SsgMarker /\ SpaMarker
    /\ vals["architecture"] = S("SSR (Server-Side Rendering)")

-----------------------------------------------------------------------------
(* Response headers and detectCdnProvider *)

\* headers[name]: undefined when the response has no such header
Hdr(h, name) == IF name \in DOMAIN h THEN h[name] ELSE Undefined

\* the values each header of the pool can carry; a header can be sent
\* with an empty value
HeaderPool ==
    ("x-cdn" :> { S("Cloudflare"), S("cloudflare") })
    @@ ("cf-ray" :> { S("7d1a2b3c4d5e-AMS"), EmptyStr })
    @@ ("x-amz-cf-id" :> { S("aGVsbG8td29ybGQ=") })
    @@ ("x-fastly-request-id" :> { S("f00dfeed") })
    @@ ("x-akamai-transformed" :> { S("9 - 0 pmb=mRUM,1") })
    @@ ("x-cache-status" :> { S("HIT"), S("MISS"), <<"TCP_", "HIT">> })
    @@ ("x-cdn-provider" :> { S("KeyCDN"), EmptyStr })

HeaderMaps(pool) ==
    UNION { [names -> UNION { pool[n] : n \in names }] :
              names \in { x \in SUBSET DOMAIN pool : Cardinality(x) <= MaxHeaders } }

\* the responses' header maps: each header present carries one of its values
CdnHeaders ==
    { h \in HeaderMaps(HeaderPool) : \A n \in DOMAIN h : h[n] \in HeaderPool[n] }

\* mutant: the generic passthrough tested before the CloudFront id
detectCdnProvider_PassthroughFirst(h) ==
    IF Hdr(h, "x-cdn") = S("Cloudflare") \/ Truthy(Hdr(h, "cf-ray")) THEN S("Cloudflare")
    ELSE IF Truthy(Hdr(h, "x-cdn-provider")) THEN Hdr(h, "x-cdn-provider")
    ELSE IF Truthy(Hdr(h, "x-amz-cf-id")) THEN S("Amazon CloudFront")
    ELSE IF Truthy(Hdr(h, "x-fastly-request-id")) THEN S("Fastly")
    ELSE IF Truthy(Hdr(h, "x-akamai-transformed")) THEN S("Akamai")
    ELSE IF Truthy(Hdr(h, "x-cache-status")) /\ StrIncludes(Hdr(h, "x-cache-status"), "HIT")
    THEN S("Varnish")
    ELSE Unknown

detectCdnProvider(h) ==
    IF Hdr(h, "x-cdn") = S("Cloudflare") \/ Truthy(Hdr(h, "cf-ray")) THEN S("Cloudflare")
    ELSE IF Truthy(Hdr(h, "x-amz-cf-id")) THEN S("Amazon CloudFront")
    ELSE IF Truthy(Hdr(h, "x-fastly-request-id")) THEN S("Fastly")
    ELSE IF Truthy(Hdr(h, "x-akamai-transformed")) THEN S("Akamai")
    ELSE IF Truthy(Hdr(h, "x-cache-status")) /\ StrIncludes(Hdr(h, "x-cache-status"), "HIT")
    THEN S("Varnish")
    ELSE IF Truthy(Hdr(h, "x-cdn-provider")) THEN Hdr(h, "x-cdn-provider")
    ELSE Unknown

InitCdn ==
    /\ Idle
    /\ pc = "cdn"
    /\ page = NoPage
    /\ headers \in CdnHeaders
    /\ vals = NoVals

Apply_detectCdnProvider ==
    /\ pc = "cdn" /\ ~Has("cdn_provider")
    /\ Put("cdn_provider", detectCdnProvider(headers))
    /\ DetectFrame

NextCdn == Apply_detectCdnProvider

SpecCdn == InitCdn /\ [][NextCdn]_vars

\* the response carries the header with a non-empty value
Sent(name) == name \in DOMAIN headers /\ headers[name] # EmptyStr

\* C9: detectCdnProvider is a top-to-bottom decision list over the headers
\* the response carries (with a non-empty value): x-cdn equal to
\* "Cloudflare" or cf-ray gives "Cloudflare"; else x-amz-cf-id gives
\* "Amazon CloudFront"; else x-fastly-request-id gives "Fastly"; else
\* x-akamai-transformed gives "Akamai"; else x-cache-status containing "HIT"
\* gives "Varnish"; else x-cdn-provider is passed through; else "Unknown".
C9_CdnDecisionList ==
    Has("cdn_provider") =>
      LET out == vals["cdn_provider"]
          cloudflare == (Sent("x-cdn") /\ headers["x-cdn"] = S("Cloudflare")) \/ Sent("cf-ray")
          hit == Sent("x-cache-status") /\ \E i \in 1..Len(headers["x-cache-status"]) :
                                               headers["x-cache-status"][i] = "HIT"
      IN CASE cloudflare -> out = S("Cloudflare")
           [] Sent("x-amz-cf-id") -> out = S("Amazon CloudFront")
           [] Sent("x-fastly-request-id") -> out = S("Fastly")
           [] Sent("x-akamai-transformed") -> out = S("Akamai")
           [] hit -> out = S("Varnish")
           [] Sent("x-cdn-provider") -> out = headers["x-cdn-provider"]
           [] OTHER -> out = Unknown

\* a response with both a CloudFront id and x-cdn-provider was classified
C9_Witness ==
    /\ Has("cdn_provider")
    /\ Sent("x-amz-cf-id") /\ Sent("x-cdn-provider")
    /\ vals["cdn_provider"] = S("Amazon CloudFront")

-----------------------------------------------------------------------------
(* generateArchitectureDiagram *)

DQ == "\""
SQ == "'"

\* a value that is not a string (a number, an object): it has no replace
NotAString == <<"#object">>
IsString(v) == v # Undefined /\ v # NotAString

\* s.replace(/"/g, "'")
ReplaceQuotes(s) == [i \in 1..Len(s) |-> IF s[i] = DQ THEN SQ ELSE s[i]]

\* analysis[key] of a scalar category: undefined when the key is absent
Prop(a, key) == IF key \in DOMAIN a THEN a[key] ELSE Undefined

\* analysis[key] of a list category; an absent list is skipped like an
\* empty one by every test the builder makes (items && items.length > 0)
ListProp(a, key) == IF key \in DOMAIN a THEN a[key] ELSE <<>>

RootA == <<"A", 0>>
RootB == <<"B", 0>>
\* mutant: the counter lives outside the function and is not reset
NodeName_KeptAcrossCalls(n) == <<"N", n + Len(built)>>

\* `N${nodeId}`
NodeName(n) == <<"N", n>>

HeaderLine == [kind |-> "header", from |-> RootA, to |-> RootA,
               label |-> S("graph TD"), quoted |-> FALSE]
RootLine   == [kind |-> "root", from |-> RootA, to |-> RootB,
               label |-> S("A[Client] --> B[Website]"), quoted |-> FALSE]
\* `  ${from} --> ${to}[${label}]` and, quoted, `  ${from} --> ${to}["${label}"]`
EdgeLine(from, to, label, quoted) ==
    [kind |-> "edge", from |-> from, to |-> to, label |-> label, quoted |-> quoted]

\* the builder's locals: the lines appended so far, the counter nodeId and
\* whether an exception has been raised
Builder(lines, nodeId, failed) == [lines |-> lines, nodeId |-> nodeId, failed |-> failed]

\* items.forEach: one quoted leaf per item, from item k on
RECURSIVE AddItems(_, _, _, _)
AddItems(b, id, items, k) ==
    IF k > Len(items) \/ b.failed THEN b
    ELSE IF ~IsString(items[k]) THEN Builder(b.lines, b.nodeId, TRUE)
    ELSE AddItems(Builder(Append(b.lines,
                                 EdgeLine(id, NodeName(b.nodeId),
                                          ReplaceQuotes(items[k]), TRUE)),
                          b.nodeId + 1, FALSE),
                  id, items, k + 1)

\* mutant: the test of items.length is left out
addNodes_NoEmptyTest(b, parentId, items, label) ==
    IF b.failed THEN b
    ELSE AddItems(Builder(Append(b.lines,
                                 EdgeLine(parentId, NodeName(b.nodeId), S(label), FALSE)),
                          b.nodeId + 1, FALSE),
                  NodeName(b.nodeId), items, 1)

addNodes(b, parentId, items, label) ==
    IF b.failed \/ Len(items) = 0 THEN b
    ELSE AddItems(Builder(Append(b.lines,
                                 EdgeLine(parentId, NodeName(b.nodeId), S(label), FALSE)),
                          b.nodeId + 1, FALSE),
                  NodeName(b.nodeId), items, 1)

\* mutant: the comparison with "Unknown" left out
ScalarEdge_NoUnknownTest(b, value, prefix) ==
    IF b.failed \/ ~Truthy(value) THEN b
    ELSE IF ~IsString(value) THEN Builder(b.lines, b.nodeId, TRUE)
    ELSE Builder(Append(b.lines,
                        EdgeLine(RootB, NodeName(b.nodeId),
                                 S(prefix) \o ReplaceQuotes(value), TRUE)),
                 b.nodeId + 1, FALSE)

\* if (analysis.x && analysis.x !== "Unknown") diagram += `  B --> Nk["<prefix><x>"]`
ScalarEdge(b, value, prefix) ==
    IF b.failed \/ ~Truthy(value) \/ value = Unknown THEN b
    ELSE IF ~IsString(value) THEN Builder(b.lines, b.nodeId, TRUE)
    ELSE Builder(Append(b.lines,
                        EdgeLine(RootB, NodeName(b.nodeId),
                                 S(prefix) \o ReplaceQuotes(value), TRUE)),
                 b.nodeId + 1, FALSE)

\* the social links: a category node and one anchor leaf per link, the link
\* embedded as it is
RECURSIVE AddLinks(_, _, _, _)
AddLinks(b, id, links, k) ==
    IF k > Len(links) THEN b
    ELSE AddLinks(Builder(Append(b.lines,
                                 EdgeLine(id, NodeName(b.nodeId),
                                          S("<a href='") \o Render(links[k])
                                            \o S("' target='_blank'>")
                                            \o Render(links[k]) \o S("</a>"),
                                          TRUE)),
                          b.nodeId + 1, FALSE),
                  id, links, k + 1)

\* mutant: the social links are inserted right after the root edge
SocialLinks_AfterRoot(b, links) ==
    IF b.failed \/ Len(links) = 0 THEN b
    ELSE LET added == AddLinks(Builder(<< EdgeLine(RootB, NodeName(b.nodeId),
                                                   S("Social Links"), FALSE) >>,
                                       b.nodeId + 1, FALSE),
                               NodeName(b.nodeId), links, 1)
         IN  Builder(SubSeq(b.lines, 1, 2) \o added.lines
                       \o SubSeq(b.lines, 3, Len(b.lines)),
                     added.nodeId, FALSE)

SocialLinks(b, links) ==
    IF b.failed \/ Len(links) = 0 THEN b
    ELSE AddLinks(Builder(Append(b.lines,
                                 EdgeLine(RootB, NodeName(b.nodeId), S("Social Links"), FALSE)),
                          b.nodeId + 1, FALSE),
                  NodeName(b.nodeId), links, 1)

\* mutant: the identifier is read without advancing the counter
FixedEdge_NoIncrement(b, label) ==
    IF b.failed THEN b
    ELSE Builder(Append(b.lines, EdgeLine(RootB, NodeName(b.nodeId), S(label), FALSE)),
                 b.nodeId, FALSE)

FixedEdge(b, label) ==
    IF b.failed THEN b
    ELSE Builder(Append(b.lines, EdgeLine(RootB, NodeName(b.nodeId), S(label), FALSE)),
                 b.nodeId + 1, FALSE)

\* the body of the try block: the builder's locals when it ends
Build(a) ==
    LET b0  == Builder(<<HeaderLine, RootLine>>, 1, FALSE)
        b1  == addNodes(b0, RootB, ListProp(a, "css_frameworks"), "CSS Frameworks")
        b2  == addNodes(b1, RootB, ListProp(a, "javascript_libraries"), "JavaScript Libraries")
        b3  == addNodes(b2, RootB, ListProp(a, "server_technologies"), "Server Technologies")
        b4  == ScalarEdge(b3, Prop(a, "hosting_provider"), "Hosting: ")
        b5  == ScalarEdge(b4, Prop(a, "cdn_provider"), "CDN: ")
        b6  == ScalarEdge(b5, Prop(a, "cms"), "CMS: ")
        b7  == ScalarEdge(b6, Prop(a, "ecommerce_platform"), "E-commerce: ")
        b8  == ScalarEdge(b7, Prop(a, "architecture"), "Architecture: ")
        b9  == addNodes(b8, RootB, ListProp(a, "marketing_technologies"),
                        "Marketing Technologies")
        b10 == SocialLinks(b9, ListProp(a, "social_links"))
        b11 == FixedEdge(b10, "SEO Analysis")
        b12 == FixedEdge(b11, "Security Analysis")
        b13 == FixedEdge(b12, "Performance Analysis")
        b14 == FixedEdge(b13, "Accessibility Analysis")
    IN b14

\* mutant: what has been appended is returned when an exception is raised
generateArchitectureDiagram_Partial(a) == Build(a).lines

\* the diagram is the sequence of its lines; the empty string has none
generateArchitectureDiagram(a) ==
    IF Build(a).failed THEN <<>> ELSE Build(a).lines

ListKeys == { "css_frameworks", "javascript_libraries", "server_technologies",
              "marketing_technologies", "social_links" }
ScalarKeys == { "hosting_provider", "cdn_provider", "cms", "ecommerce_platform",
                "architecture" }

\* the label each scalar category's leaf starts with
ScalarPrefix ==
    ("hosting_provider" :> "Hosting: ") @@ ("cdn_provider" :> "CDN: ")
    @@ ("cms" :> "CMS: ") @@ ("ecommerce_platform" :> "E-commerce: ")
    @@ ("architecture" :> "Architecture: ")

\* list items of the pool: plain names, texts with double quotes and href
\* attributes as detectSocialLinks collects them (getAttribute("href"))
ItemSeqs ==
    { << S("React"), <<"say ", DQ, "hi", DQ>>, S("jQuery"), S("Vue.js") >>,
      << <<DQ, "quoted", DQ>>, S("Apache"), S("PHP"), S("Nginx") >>,
      << <<"https://facebook.com/", DQ, "acme", DQ>>, S("https://x.com/acme"),
         S("https://youtube.com/@acme"), S("https://reddit.com/r/acme") >> }

\* the non-empty lists of at most n items
ListsUpTo(n) == { SubSeq(s, 1, k) : s \in ItemSeqs, k \in 1..n }

\* the values a scalar category can hold: "Unknown", the empty string, a
\* detected value
ScalarPool == { Unknown, EmptyStr, S("Netlify") }

\* reports whose list-valued categories hold strings, at most MaxListed of
\* them non-empty, and whose scalar categories hold strings
Reports ==
    { [k \in ListKeys |-> IF k \in DOMAIN l THEN l[k] ELSE <<>>] @@ s :
        l \in UNION { [listed -> ListsUpTo(MaxItems)] :
                        listed \in { x \in SUBSET ListKeys : Cardinality(x) <= MaxListed } },
        s \in [ScalarKeys -> ScalarPool] }

InitDiagram ==
    /\ Idle
    /\ pc = "build"
    /\ page = NoPage
    /\ headers = <<>>
    /\ vals \in Reports

Apply_generateArchitectureDiagram ==
    /\ pc = "build"
    /\ diagram' = generateArchitectureDiagram(vals)
    /\ built' = Append(built, [report |-> vals,
                                diagram |-> generateArchitectureDiagram(vals)])
    /\ pc' = "built"
    /\ UNCHANGED <<entry, method, bodyUrl, calls, primary, page, headers,
                   hostReply, hostingProvider, vals, thrown, result, res>>

NextDiagram == Apply_generateArchitectureDiagram

SpecDiagram == InitDiagram /\ [][NextDiagram]_vars

\* the leaf edges from B that carry a scalar category's prefix
ScalarLeaves(key) ==
    { i \in 1..Len(diagram) :
        /\ diagram[i].kind = "edge" /\ diagram[i].from = RootB /\ diagram[i].quoted
        /\ Len(diagram[i].label) >= 1
        /\ diagram[i].label[1] = ScalarPrefix[key] }

\* C10: the diagram has no node for a scalar category whose value is
\* "Unknown" or empty, and exactly one leaf edge from B, labelled with the
\* category's prefix and value, for each scalar category whose value is
\* non-empty and not "Unknown".
C10_NoUnknownScalarNode ==
    pc = "built" =>
      \A key \in ScalarKeys :
        IF vals[key] = Unknown \/ vals[key] = EmptyStr
        THEN ScalarLeaves(key) = {}
        ELSE /\ Cardinality(ScalarLeaves(key)) = 1
             /\ \A i \in ScalarLeaves(key) :
                  diagram[i].label = S(ScalarPrefix[key]) \o vals[key]

\* a report with an "Unknown" scalar, an empty one and a detected one
C10_Witness ==
    /\ pc = "built"
    /\ vals["cms"] = Unknown /\ vals["cdn_provider"] = EmptyStr
    /\ vals["hosting_provider"] = S("Netlify")
    /\ ScalarLeaves("cms") = {} /\ Cardinality(ScalarLeaves("hosting_provider")) = 1

\* --- reports of any shape ---

\* lists that hold a value that is not a string, or undefined
OddItemSeqs ==
    { << S("React"), NotAString, S("jQuery"), S("Vue.js") >>,
      << Undefined, S("Apache"), S("PHP"), S("Nginx") >> }
AnyLists(n) == { SubSeq(s, 1, k) : s \in ItemSeqs \cup OddItemSeqs, k \in 1..n }

\* the scalar categories of a report: all "Unknown", all detected, a value
\* with double quotes, a value that is not a string, none at all
ScalarShapes ==
    { [k \in ScalarKeys |-> Unknown],
      [k \in ScalarKeys |-> S("Netlify")],
      [k \in ScalarKeys |-> IF k = "cms" THEN <<"Word", DQ, "Press", DQ>> ELSE EmptyStr],
      [k \in ScalarKeys |-> IF k = "cdn_provider" THEN NotAString ELSE S("Netlify")],
      [k \in {"architecture"} |-> S("MPA (Multi-Page Application)")],
      << >> }

\* reports in which up to two list-valued categories hold items, the other
\* list-valued categories being empty (TRUE) or absent (FALSE)
AnyReports ==
    { (IF e THEN [k \in ListKeys \ DOMAIN l |-> <<>>] ELSE << >>) @@ l @@ s :
        l \in UNION { [listed -> AnyLists(MaxItems)] :
                        listed \in { x \in SUBSET ListKeys : Cardinality(x) <= 2 } },
        s \in ScalarShapes,
        e \in BOOLEAN }

InitBuild ==
    /\ Idle
    /\ pc = "build"
    /\ page = NoPage
    /\ headers = <<>>
    /\ vals \in AnyReports

\* generateArchitectureDiagram applied to a report of any shape
SpecBuild == InitBuild /\ [][NextDiagram]_vars

\* items.forEach((item) => item.replace(...)) raises on this list
RaisesOnList(items) == \E k \in 1..Len(items) : items[k] \in {NotAString, Undefined}
\* value.replace(...) is reached and raises
RaisesOnScalar(v) == v = NotAString
\* something in the report makes the builder raise
Raises(a) ==
    \/ \E key \in ListKeys \ {"social_links"} : RaisesOnList(ListProp(a, key))
    \/ \E key \in ScalarKeys : RaisesOnScalar(Prop(a, key))

\* C13: generateArchitectureDiagram always returns: the empty string when a
\* list item or a scalar value that is not a string makes the builder
\* raise, and otherwise a whole diagram, from the header line to the last
\* fixed leaf; it never returns the lines appended before an error.
C13_EmptyDiagramOnError ==
    pc = "built" =>
        /\ Raises(vals) => diagram = <<>>
        /\ ~Raises(vals) => diagram # <<>>
        /\ diagram # <<>> =>
             /\ Len(diagram) >= 6
             /\ diagram[1].kind = "header"
             /\ diagram[Len(diagram)].label = S("Accessibility Analysis")

\* a report whose second list item is not a string: N1, N2 were appended
\* before the error
C13_Witness ==
    /\ pc = "built"
    /\ "javascript_libraries" \in DOMAIN vals
    /\ Len(vals["javascript_libraries"]) = 2
    /\ vals["javascript_libraries"][2] = NotAString
    /\ diagram = <<>>

\* --- several calls, one after the other ---

MaxCalls == 3

\* the reports handed to the builder by successive analyses
CallReports ==
    { << >>,
      [k \in ListKeys |-> <<>>] @@ [k \in ScalarKeys |-> Unknown],
      ("css_frameworks" :> << S("Bootstrap"), <<"say ", DQ, "hi", DQ>> >>)
        @@ ("javascript_libraries" :> << S("React") >>)
        @@ [k \in ScalarKeys |-> S("Netlify")],
      ("marketing_technologies" :> << S("HubSpot") >>)
        @@ ("social_links" :> << S("https://x.com/acme"), S("https://youtube.com/@acme") >>)
        @@ ("cms" :> S("WordPress")),
      ("javascript_libraries" :> << S("React"), NotAString >>)
        @@ [k \in ScalarKeys |-> S("Netlify")],
      [k \in ListKeys |-> << S("item") >>]
        @@ ("architecture" :> S("MPA (Multi-Page Application)")) }

InitCalls ==
    /\ Idle
    /\ pc = "build"
    /\ page = NoPage
    /\ headers = <<>>
    /\ vals \in CallReports

\* another analysis completes and hands its report to the builder
NextReport ==
    /\ pc = "built"
    /\ Len(built) < MaxCalls
    /\ vals' \in CallReports
    /\ pc' = "build"
    /\ UNCHANGED <<entry, method, bodyUrl, calls, primary, page, headers,
                   hostReply, hostingProvider, thrown, result, res, diagram, built>>

NextCalls == Apply_generateArchitectureDiagram \/ NextReport

SpecCalls == InitCalls /\ [][NextCalls]_vars

\* the node a line of a diagram introduces
Target(line) == line.to

\* C14: in every diagram built, the k-th edge line after the root edge
\* introduces node Nk: identifiers start at N1 in each call, rise by one
\* with each line appended, are pairwise distinct and differ from the roots
\* A and B.
C14_IdentifiersCountFromOne ==
    \A c \in 1..Len(built) :
      LET dg == built[c].diagram
      IN  /\ \A i \in 3..Len(dg) : Target(dg[i]) = <<"N", i - 2>>
          /\ \A i, j \in 3..Len(dg) : Target(dg[i]) = Target(dg[j]) => i = j
          /\ \A i \in 3..Len(dg) : Target(dg[i]) \notin {RootA, RootB}

\* a second call, after a first one that issued identifiers, starts at N1
C14_Witness ==
    /\ Len(built) >= 2
    /\ Len(built[1].diagram) > 6
    /\ Len(built[2].diagram) > 6
    /\ built[2].diagram[3].to = <<"N", 1>>
    /\ built[2].diagram[Len(built[2].diagram)].to = <<"N", Len(built[2].diagram) - 2>>

CategoryLabel ==
    ("css_frameworks" :> "CSS Frameworks")
    @@ ("javascript_libraries" :> "JavaScript Libraries")
    @@ ("server_technologies" :> "Server Technologies")
    @@ ("marketing_technologies" :> "Marketing Technologies")
    @@ ("social_links" :> "Social Links")

\* the lines that attach a category node with the label of key to B
CategoryNodes(key) ==
    { i \in 1..Len(diagram) :
        /\ diagram[i].kind = "edge" /\ diagram[i].from = RootB /\ ~diagram[i].quoted
        /\ diagram[i].label = S(CategoryLabel[key]) }

\* the text the leaf of an item carries (a link is interpolated, so an
\* undefined link reads "undefined")
LeafLabel(key, item) ==
    IF key = "social_links"
    THEN <<"<a href='">> \o Render(item) \o <<"' target='_blank'>">>
         \o Render(item) \o <<"</a>">>
    ELSE [j \in 1..Len(item) |-> IF item[j] = DQ THEN SQ ELSE item[j]]

\* the lines a list-valued category accounts for
LinesOf(key) ==
    IF Len(ListProp(vals, key)) > 0 THEN 1 + Len(ListProp(vals, key)) ELSE 0

ScalarsShown == { key \in ScalarKeys : Truthy(Prop(vals, key)) /\ Prop(vals, key) # Unknown }

\* C17: a non-empty diagram starts with the line "graph TD" and the root
\* edge A[Client] --> B[Website]; each list-valued category with n > 0
\* items has exactly one category node attached to B, followed by exactly n
\* leaf edges attached to that node, one per item in item order; an empty
\* or absent list-valued category has no line.
C17_DiagramStructure ==
    (pc = "built" /\ diagram # <<>>) =>
        /\ diagram[1].label = S("graph TD")
        /\ diagram[2].from = RootA /\ diagram[2].to = RootB
        /\ diagram[2].label = S("A[Client] --> B[Website]")
        /\ \A key \in ListKeys :
             LET items == ListProp(vals, key)
             IN  IF Len(items) = 0 THEN CategoryNodes(key) = {}
                 ELSE /\ Cardinality(CategoryNodes(key)) = 1
                      /\ \A c \in CategoryNodes(key) :
                           /\ { i \in 1..Len(diagram) : diagram[i].from = diagram[c].to }
                                = (c + 1)..(c + Len(items))
                           /\ \A k \in 1..Len(items) :
                                diagram[c + k].label = LeafLabel(key, items[k])
        /\ Len(diagram) = 2 + LinesOf("css_frameworks") + LinesOf("javascript_libraries")
                            + LinesOf("server_technologies")
                            + LinesOf("marketing_technologies") + LinesOf("social_links")
                            + Cardinality(ScalarsShown) + 4

\* a report with two items in one list, links in another and an absent list
C17_Witness ==
    /\ pc = "built" /\ diagram # <<>>
    /\ Len(ListProp(vals, "css_frameworks")) = 2
    /\ Len(ListProp(vals, "social_links")) = 1
    /\ "javascript_libraries" \notin DOMAIN vals
    /\ Cardinality(CategoryNodes("css_frameworks")) = 1
    /\ CategoryNodes("javascript_libraries") = {}

\* the parts of a diagram in the order the builder appends them; a part is
\* known by the first fragment of the label of its edge from B
PartOrder ==
    << "CSS Frameworks", "JavaScript Libraries", "Server Technologies",
       "Hosting: ", "CDN: ", "CMS: ", "E-commerce: ", "Architecture: ",
       "Marketing Technologies", "Social Links",
       "SEO Analysis", "Security Analysis", "Performance Analysis",
       "Accessibility Analysis" >>
\* the edges that leave B
FromB == { i \in 3..Len(diagram) : diagram[i].from = RootB }
IsPart(i) == \E r \in 1..Len(PartOrder) : diagram[i].label[1] = PartOrder[r]
PartOf(i) == CHOOSE r \in 1..Len(PartOrder) : diagram[i].label[1] = PartOrder[r]
\* the number in identifier Nk
Number(id) == id[2]

\* C28: in every non-empty diagram the edges from B come in the fixed order
\* CSS Frameworks, JavaScript Libraries, Server Technologies, Hosting, CDN,
\* CMS, E-commerce, Architecture, Marketing Technologies, Social Links, and
\* the last four lines are the leaf edges from B labelled SEO Analysis,
\* Security Analysis, Performance Analysis and Accessibility Analysis, whose
\* identifiers are the four highest of the diagram.
C28_FixedOrderAndFinalLeaves ==
    (pc = "built" /\ diagram # <<>>) =>
        LET n == Len(diagram)
        IN  /\ \A i \in FromB : IsPart(i)
            /\ \A i, j \in FromB : i < j => PartOf(i) < PartOf(j)
            /\ n >= 6
            /\ \A k \in 0..3 :
                 /\ diagram[n - 3 + k].from = RootB
                 /\ ~diagram[n - 3 + k].quoted
                 /\ diagram[n - 3 + k].label = S(PartOrder[11 + k])
                 /\ \A i \in 3..(n - 4 + k) :
                      Number(diagram[i].to) < Number(diagram[n - 3 + k].to)

\* a diagram with a list category, a scalar leaf and social links before
\* the four final leaves
C28_Witness ==
    /\ pc = "built" /\ diagram # <<>>
    /\ CategoryNodes("css_frameworks") # {}
    /\ CategoryNodes("social_links") # {}
    /\ ScalarLeaves("cms") # {}
    /\ diagram[Len(diagram)].label = S("Accessibility Analysis")

\* C11: no label of the diagram carries a double-quote character that comes
\* from the report: every list item, social link and scalar value is
\* embedded with each double quote replaced by a single quote.
C11_NoDoubleQuoteInLabels ==
    pc = "built" =>
      \A i \in 1..Len(diagram) :
        \A j \in 1..Len(diagram[i].label) : diagram[i].label[j] # DQ

-----------------------------------------------------------------------------
(* The request pipeline: an entry point receives a request, analyzeWebsite    *)
(* runs from one await to the next, and the entry point responds.             *)

\* --- errors and the messages analyzeWebsite throws ---

\* an error value as the catch block of analyzeWebsite inspects it
Err(axiosErr, hasResponse, hasRequest, status, statusText, isError, message) ==
    [isAxiosError |-> axiosErr, hasResponse |-> hasResponse,
     hasRequest |-> hasRequest, status |-> status, statusText |-> statusText,
     isError |-> isError, message |-> message]

\* an axios error carrying a response also carries the request that got it
HttpError(status, statusText) ==
    Err(TRUE, TRUE, TRUE, status, statusText, TRUE,
        <<"Request failed with status code ", status>>)
NoResponseError == Err(TRUE, FALSE, TRUE, "", "", TRUE, S("connect ECONNREFUSED"))
SetupError == Err(TRUE, FALSE, FALSE, "", "", TRUE, S("Unsupported protocol ftp:"))
InvalidUrlError == Err(FALSE, FALSE, FALSE, "", "", TRUE, S("Invalid URL"))
NonError == Err(FALSE, FALSE, FALSE, "", "", FALSE, Undefined)

HttpErrorMessage(status, statusText) == <<"HTTP error ", status, ": ", statusText>>
NoResponseMessage ==
    S("No response received from the server. The website might be down or blocking our requests.")
UnexpectedPrefix == "An unexpected error occurred while analyzing the website: "
UnexpectedMessage == S("An unexpected error occurred while analyzing the website.")

\* mutant: the request is tested before the response
Rethrow_RequestFirst(error) ==
    IF error.isAxiosError /\ error.hasRequest THEN NoResponseMessage
    ELSE IF error.isAxiosError /\ error.hasResponse
         THEN HttpErrorMessage(error.status, error.statusText)
    ELSE IF error.isError THEN <<UnexpectedPrefix>> \o Render(error.message)
    ELSE UnexpectedMessage

\* the catch block of analyzeWebsite: the message of the error it throws
Rethrow(error) ==
    IF error.isAxiosError /\ error.hasResponse
    THEN HttpErrorMessage(error.status, error.statusText)
    ELSE IF error.isAxiosError /\ error.hasRequest THEN NoResponseMessage
    ELSE IF error.isError THEN <<UnexpectedPrefix>> \o Render(error.message)
    ELSE UnexpectedMessage

\* --- URLs ---

\* the class URL imported from "url", used as a value
UrlClass == S("class URL { [native code] }")
AbsoluteUrls == { S("https://example.com/shop") }
\* new URL(x) succeeds exactly when String(x) parses as an absolute URL
ParsesAsUrl(x) == x \in AbsoluteUrls
BodyUrls == { Undefined, EmptyStr, S("not a url") } \cup AbsoluteUrls

\* --- the hosting lookup ---

\* how the call to the hosting-lookup API can end: the call fails, the body
\* has no result object, or the body carries result.code and (maybe) results,
\* a list of the isp_name of each entry (Undefined where an entry has none)
HostFailure == [kind |-> "error", code |-> 0, hasResults |-> FALSE, results |-> <<>>]
HostMalformed == [kind |-> "malformed", code |-> 0, hasResults |-> FALSE, results |-> <<>>]
HostBody(code, hasResults, results) ==
    [kind |-> "body", code |-> code, hasResults |-> hasResults, results |-> results]
HostReplies ==
    { HostFailure, HostMalformed,
      HostBody(404, TRUE, << S("Hetzner Online GmbH") >>),
      HostBody(200, FALSE, <<>>),
      HostBody(200, TRUE, <<>>),
      HostBody(200, TRUE, << S("Hetzner Online GmbH"), S("Cloudflare, Inc.") >>),
      HostBody(200, TRUE, << Undefined >>) }

Returned(v) == [threw |-> FALSE, value |-> v, error |-> NonError]
Threw(e) == [threw |-> TRUE, value |-> None, error |-> e]

\* mutant: a non-200 result code is treated as an application error
detectHostingProvider_ThrowsOnCode(url, reply) ==
    IF ~ParsesAsUrl(url) THEN Threw(InvalidUrlError)
    ELSE IF reply.kind \in {"error", "malformed"} THEN Returned(S("Host Finder Error"))
    ELSE IF reply.code # 200 THEN Threw(HttpError("404", "Not Found"))
    ELSE IF reply.hasResults /\ Len(reply.results) > 0
         THEN Returned(<<"Provider: ">> \o Render(reply.results[1]))
    ELSE Returned(S("unable to find provider"))

\* detectHostingProvider, given how the API call ended
detectHostingProvider(url, reply) ==
    IF ~ParsesAsUrl(url) THEN Threw(InvalidUrlError)
    ELSE IF reply.kind \in {"error", "malformed"} THEN Returned(S("Host Finder Error"))
    ELSE IF reply.code = 200 /\ reply.hasResults /\ Len(reply.results) > 0
         THEN Returned(<<"Provider: ">> \o Render(reply.results[1]))
    ELSE Returned(S("unable to find provider"))

\* --- the remaining extractors of the pipeline ---

analyzeHtmlStructure(p) ==
    LET tags == {"html", "head", "body"} \cup { n.tag : n \in p.nodes }
    IN  [ tg \in tags |->
            (IF tg \in {"html", "head", "body"} THEN 1 ELSE 0)
            + Cardinality({ n \in p.nodes : n.tag = tg }) ]

\* regex.test(value) for the patterns of detectServerTechnologies, on the
\* header values of SiteHeaders
RegexHits ==
    { <<"apache", "Apache/2.4.41 (Ubuntu)">>, <<"nginx", "nginx/1.18.0">>,
      <<"php", "PHP/8.1.2">>, <<"express", "Express">>,
      <<"cloudflare", "1.1 cloudflare">>, <<"text\\/html", "text/html; charset=utf-8">> }
Test(regex, value) == \E i \in 1..Len(value) : <<regex, value[i]>> \in RegexHits

TechRule(name, header, regex) == [name |-> S(name), header |-> header, regex |-> regex]
serverRules ==
    << TechRule("Apache", "server", "apache"), TechRule("Nginx", "server", "nginx"),
       TechRule("IIS", "server", "microsoft-iis"),
       TechRule("LiteSpeed", "server", "litespeed"),
       TechRule("PHP", "x-powered-by", "php"),
       TechRule("ASP.NET", "x-powered-by", "asp\\.net"),
       TechRule("Express.js", "x-powered-by", "express"),
       TechRule("Ruby on Rails", "x-powered-by", "rails"),
       TechRule("Laravel", "x-powered-by", "laravel"),
       TechRule("Django", "x-powered-by", "django"),
       TechRule("Node.js", "x-powered-by", "node\\.js"),
       TechRule("Cloudflare", "via", "cloudflare") >>
contentRules ==
    << TechRule("API Server", "content-type", "application\\/json"),
       TechRule("Web Server", "content-type", "text\\/html") >>
bodyRules ==
    << Rule("WordPress", "wp-content"), Rule("Drupal", "Drupal"),
       Rule("Joomla", "Joomla"), Rule("Shopify", "Shopify") >>

HeaderRuleFires(h, table) ==
    [ i \in 1..Len(table) |->
        Truthy(Hdr(h, table[i].header)) /\ Test(table[i].regex, Hdr(h, table[i].header)) ]

\* the part of detectServerTechnologies before its own GET of the page
HeaderTechnologies(h) ==
    PushMatches(serverRules, HeaderRuleFires(h, serverRules), 1, <<>>)
    \o (IF Truthy(Hdr(h, "x-aspnet-version")) THEN << S("ASP.NET") >> ELSE <<>>)
    \o (IF Truthy(Hdr(h, "x-rails-version")) THEN << S("Ruby on Rails") >> ELSE <<>>)
    \o (IF Truthy(Hdr(h, "cdn-provider"))
        THEN << <<"CDN: ">> \o Hdr(h, "cdn-provider") >> ELSE <<>>)
    \o PushMatches(contentRules, HeaderRuleFires(h, contentRules), 1, <<>>)

\* detectServerTechnologies, given the body its own GET returned
detectServerTechnologies(h, body) ==
    HeaderTechnologies(h)
    \o PushMatches(bodyRules,
                   [ i \in 1..Len(bodyRules) |-> Includes(body, bodyRules[i].keyword) ],
                   1, <<>>)

\* document.title: the text of the title element, "" without one
DocumentTitle(p) ==
    IF \E n \in p.nodes : n.tag = "title"
    THEN S((CHOOSE n \in p.nodes : n.tag = "title").val)
    ELSE EmptyStr

\* analyzeSEO: the object literal evaluates new URL(URL) with the imported
\* class as its argument
analyzeSEO(p) ==
    IF ParsesAsUrl(UrlClass)
    THEN Returned([metaTitle |-> DocumentTitle(p)])
    ELSE Threw(InvalidUrlError)

\* --- the requests and the sites of the pipeline ---

Entries == { "part_000", "part_001", "api/analyze.ts", "server.tsx" }
Methods == { "POST", "OPTIONS", "GET" }
\* server.tsx mounts its handler with app.post: only POST requests reach it
Routed(e, m) == e # "server.tsx" \/ m = "POST"

MaxSignals == 1
\* <html><head><title>T</title></head><body><img></body></html>: no text
\* fragment of a rule, a title element and an image without alt
MinimalPage ==
    [words |-> {},
     nodes |-> { [tag |-> "title", qual |-> "", val |-> "T"],
                 [tag |-> "img", qual |-> "", val |-> ""] },
     loaded |-> TRUE]
SitePages ==
    { p \in Pages : Cardinality(p.words) + Cardinality(p.nodes) <= MaxSignals }
    \cup { MinimalPage }
BlankBody == [words |-> {}, nodes |-> {}, loaded |-> TRUE]
SiteHeaders ==
    { << >>,
      ("cf-ray" :> S("7d1a2b3c4d5e-AMS")) @@ ("via" :> S("1.1 cloudflare")),
      ("server" :> S("Apache/2.4.41 (Ubuntu)")) @@ ("x-powered-by" :> S("PHP/8.1.2")),
      ("server" :> S("nginx/1.18.0")) @@ ("x-cdn-provider" :> S("KeyCDN"))
          @@ ("content-type" :> S("text/html; charset=utf-8")),
      ("x-powered-by" :> S("Express")) @@ ("x-amz-cf-id" :> S("aGVsbG8td29ybGQ=")) }

\* the ways a GET of the target can fail
PrimaryFailures ==
    { HttpError("404", "Not Found"), HttpError("503", "Service Unavailable"),
      NoResponseError, SetupError, InvalidUrlError }
RefetchFailures == { HttpError("503", "Service Unavailable"), NoResponseError }

Init ==
    /\ entry \in Entries
    /\ method \in Methods
    /\ Routed(entry, method)
    /\ bodyUrl \in BodyUrls
    /\ pc = "received"
    /\ calls = <<>>
    /\ primary = NoOutcome
    /\ page = NoPage
    /\ headers = << >>
    /\ hostReply = NoOutcome
    /\ hostingProvider = None
    /\ vals = NoVals
    /\ thrown = None
    /\ result = NoResult
    /\ res = <<>>
    /\ diagram = None
    /\ built = <<>>

\* --- responses ---

\* a response: its status, its body and its Allow header (none unless set)
Response(status, body) == [status |-> status, body |-> body, allow |-> <<>>]
NoBody == [kind |-> "end"]
TextBody(text) == [kind |-> "text", text |-> text]
ErrorBody(error, details) == [kind |-> "json", error |-> error, details |-> details]
ReportBody(r) == [kind |-> "report", report |-> r]
Respond(status, body) ==
    /\ res' = Append(res, Response(status, body))
    /\ pc' = "done"
\* res.setHeader('Allow', ['POST']); res.status(405).end(...)
NotAllowed ==
    /\ res' = Append(res, [Response(405, TextBody(<<"Method ", method, " Not Allowed">>))
                             EXCEPT !.allow = <<"POST">>])
    /\ pc' = "done"

AnalysisFrame == UNCHANGED <<primary, page, headers, hostReply, hostingProvider,
                             vals, thrown, result, diagram, built>>

\* analyzeWebsite(url, options) from its call to its first await: the GET
\* of the target is issued
CallAnalyzeWebsite ==
    /\ calls' = Append(calls, "GET target")
    /\ pc' = "primary"
    /\ UNCHANGED res

\* --- the entry points, from the request to the call of analyzeWebsite ---

Handler_part_000 ==
    /\ pc = "received" /\ entry = "part_000"
    /\ IF method = "OPTIONS" THEN Respond(200, NoBody) /\ UNCHANGED calls
       ELSE IF method = "POST"
            THEN IF ~Truthy(bodyUrl)
                 THEN Respond(400, ErrorBody(S("URL is required"), Undefined))
                      /\ UNCHANGED calls
                 ELSE CallAnalyzeWebsite
       ELSE NotAllowed /\ UNCHANGED calls
    /\ AnalysisFrame
    /\ UNCHANGED <<entry, method, bodyUrl>>

Handler_part_001 ==
    /\ pc = "received" /\ entry = "part_001"
    /\ IF method = "OPTIONS" THEN Respond(200, NoBody) /\ UNCHANGED calls
       ELSE IF method = "POST"
            THEN IF ~Truthy(bodyUrl)
                 THEN Respond(400, ErrorBody(S("URL is required"), Undefined))
                      /\ UNCHANGED calls
                 ELSE CallAnalyzeWebsite
       ELSE NotAllowed /\ UNCHANGED calls
    /\ AnalysisFrame
    /\ UNCHANGED <<entry, method, bodyUrl>>

Handler_api ==
    /\ pc = "received" /\ entry = "api/analyze.ts"
    /\ IF method = "POST"
       THEN IF ~Truthy(bodyUrl)
            THEN Respond(400, ErrorBody(S("URL is required"), Undefined))
                 /\ UNCHANGED calls
            ELSE CallAnalyzeWebsite
       ELSE NotAllowed /\ UNCHANGED calls
    /\ AnalysisFrame
    /\ UNCHANGED <<entry, method, bodyUrl>>

\* app.post('/analyze'): the url of the body goes to analyzeWebsite as it is
Handler_server ==
    /\ pc = "received" /\ entry = "server.tsx"
    /\ CallAnalyzeWebsite
    /\ AnalysisFrame
    /\ UNCHANGED <<entry, method, bodyUrl>>

\* --- analyzeWebsite, from one await to the next ---

RequestFrame == UNCHANGED <<entry, method, bodyUrl, res>>

\* mutant: the error is swallowed and the failed step is tried again
Catch_Retries(e) ==
    /\ thrown' = thrown
    /\ pc' = pc

\* the catch block of analyzeWebsite runs on error e
Catch(e) ==
    /\ thrown' = Rethrow(e)
    /\ pc' = "threw"

\* the primary GET returns a page; detectHostingProvider is called and
\* issues its API call.  A GET succeeds only for a url that parses as an
\* absolute URL.
PrimaryFetchSucceeds ==
    /\ pc = "primary"
    /\ ParsesAsUrl(bodyUrl)
    /\ primary' = Fetched
    /\ page' \in SitePages
    /\ headers' \in SiteHeaders
    /\ calls' = Append(calls, "GET who-hosts-this")
    /\ pc' = "hosting"
    /\ UNCHANGED <<hostReply, hostingProvider, vals, thrown, result, diagram, built>>
    /\ RequestFrame

\* the primary GET fails
PrimaryFetchFails ==
    /\ pc = "primary"
    /\ \E e \in PrimaryFailures :
        /\ primary' = Failed(e)
        /\ Catch(e)
    /\ UNCHANGED <<calls, page, headers, hostReply, hostingProvider, vals,
                   result, diagram, built>>
    /\ RequestFrame

\* the hosting API call ends; the literal of the report is evaluated up to
\* server_technologies, where detectServerTechnologies issues its own GET
HostingLookupSettles ==
    /\ pc = "hosting"
    /\ \E reply \in HostReplies :
        LET r == detectHostingProvider(bodyUrl, reply)
        IN  /\ hostReply' = reply
            /\ IF r.threw
               THEN /\ Catch(r.error)
                    /\ UNCHANGED <<hostingProvider, vals, calls>>
               ELSE /\ hostingProvider' = r.value
                    /\ vals' = ("html_structure" :> analyzeHtmlStructure(page))
                               @@ ("css_frameworks" :> detectCssFrameworks(page))
                               @@ ("javascript_libraries" :> detectJavascriptLibraries(page))
                    /\ calls' = Append(calls, "GET target")
                    /\ pc' = "refetch"
                    /\ UNCHANGED thrown
    /\ UNCHANGED <<primary, page, headers, result, diagram, built>>
    /\ RequestFrame

\* the GET of detectServerTechnologies returns; the literal is evaluated up
\* to seo_analysis, where analyzeSEO is called
RefetchSucceeds ==
    /\ pc = "refetch"
    /\ \E body \in {page, BlankBody} :
        vals' = vals
                @@ ("server_technologies" :> detectServerTechnologies(headers, body))
                @@ ("hosting_provider" :> hostingProvider)
                @@ ("cdn_provider" :> detectCdnProvider(headers))
                @@ ("cms" :> detectCMS(page))
                @@ ("ecommerce_platform" :> detectEcommercePlatform(page))
    /\ pc' = "seo"
    /\ UNCHANGED <<calls, primary, page, headers, hostReply, hostingProvider,
                   thrown, result, diagram, built>>
    /\ RequestFrame

\* the GET of detectServerTechnologies fails
RefetchFails ==
    /\ pc = "refetch"
    /\ \E e \in RefetchFailures : Catch(e)
    /\ UNCHANGED <<calls, primary, page, headers, hostReply, hostingProvider,
                   vals, result, diagram, built>>
    /\ RequestFrame

\* the promise of analyzeSEO settles
AwaitAnalyzeSEO ==
    /\ pc = "seo"
    /\ LET r == analyzeSEO(page)
       IN  IF r.threw
           THEN Catch(r.error) /\ UNCHANGED vals
           ELSE /\ vals' = vals @@ ("seo_analysis" :> r.value)
                /\ pc' = "after_seo"
                /\ UNCHANGED thrown
    /\ UNCHANGED <<calls, primary, page, headers, hostReply, hostingProvider,
                   result, diagram, built>>
    /\ RequestFrame

\* --- the entry points, once analyzeWebsite has settled ---

Settled == pc \in {"threw", "returned"}
GenericError == S("An unexpected error occurred")
SettleFrame == UNCHANGED <<entry, method, bodyUrl, calls, primary, page, headers,
                           hostReply, hostingProvider, vals, thrown, result,
                           diagram, built>>

Settle_part_000 ==
    /\ Settled /\ entry = "part_000"
    /\ IF pc = "threw" THEN Respond(500, ErrorBody(GenericError, thrown))
       ELSE Respond(200, ReportBody(result))
    /\ SettleFrame

Settle_part_001 ==
    /\ Settled /\ entry = "part_001"
    /\ IF pc = "threw"
       THEN Respond(500, ErrorBody(GenericError,
                                   <<"Error analyzing website: ">> \o thrown))
       ELSE Respond(200, ReportBody(result))
    /\ SettleFrame

Settle_api ==
    /\ Settled /\ entry = "api/analyze.ts"
    /\ IF pc = "threw" THEN Respond(500, ErrorBody(GenericError, Undefined))
       ELSE Respond(200, ReportBody(result))
    /\ SettleFrame

Settle_server ==
    /\ Settled /\ entry = "server.tsx"
    /\ IF pc = "threw" THEN Respond(500, ErrorBody(GenericError, Undefined))
       ELSE Respond(200, ReportBody(result))
    /\ SettleFrame

Next ==
    \/ Handler_part_000 \/ Handler_part_001 \/ Handler_api \/ Handler_server
    \/ PrimaryFetchSucceeds \/ PrimaryFetchFails
    \/ HostingLookupSettles
    \/ RefetchSucceeds \/ RefetchFails
    \/ AwaitAnalyzeSEO
    \/ Settle_part_000 \/ Settle_part_001 \/ Settle_api \/ Settle_server

Spec == Init /\ [][Next]_vars

-----------------------------------------------------------------------------
(* Properties of the request pipeline *)

CategoryKeys ==
    { "html_structure", "css_frameworks", "javascript_libraries",
      "server_technologies", "hosting_provider", "cdn_provider", "cms",
      "ecommerce_platform", "seo_analysis", "security_analysis",
      "performance_analysis", "accessibility_analysis", "architecture",
      "marketing_technologies", "social_links", "robots_txt", "sitemap_xml" }

\* C1: for any page content and any outcome of the hosting lookup, the
\* analysis of a page that was fetched delivers a report, and that report
\* carries every one of the seventeen category keys.
C1_FetchedPageYieldsEveryKey ==
    (pc = "done" /\ primary.kind = "ok") =>
        /\ result.returned
        /\ CategoryKeys \subseteq DOMAIN result.analysis_results

\* C2: only a failure of the primary GET aborts an analysis: once the
\* primary GET has succeeded, analyzeWebsite throws nothing, whatever
\* happens inside an extractor or a secondary fetch.
C2_OnlyPrimaryFailureAborts ==
    primary.kind = "ok" => (thrown = None /\ pc # "threw")

\* C3: when the primary GET is answered with 404 Not Found, the one response
\* delivered to the caller is an error object whose error field is
\* "HTTP error 404: Not Found", and it carries no report.
C3_NotFoundDeliversHttpError ==
    (pc = "done" /\ primary.kind = "failed" /\ primary.error.status = "404") =>
        /\ Len(res) = 1
        /\ res[1].body.kind = "json"
        /\ res[1].body.error = <<"HTTP error ", "404", ": ", "Not Found">>

\* C4: a failed primary GET always ends in one thrown error and never in a
\* returned report; the message is "HTTP error <status>: <statusText>" when
\* the failure carries a response, the connectivity message when it carries
\* a request but no response, and the generic unexpected-error message
\* otherwise.
C4_PrimaryFailureClassified ==
    primary.kind = "failed" =>
        /\ pc \in {"threw", "done"}
        /\ ~result.returned
        /\ \A i \in 1..Len(res) : res[i].body.kind # "report"
        /\ LET e == primary.error
           IN  IF e.hasResponse
               THEN thrown = <<"HTTP error ", e.status, ": ", e.statusText>>
               ELSE IF e.hasRequest
               THEN thrown = S("No response received from the server. The website might be down or blocking our requests.")
               ELSE \/ thrown = <<"An unexpected error occurred while analyzing the website: ">> \o e.message
                    \/ thrown = S("An unexpected error occurred while analyzing the website.")

C4_Witness ==
    /\ pc = "done"
    /\ primary.kind = "failed" /\ primary.error.hasResponse
    /\ primary.error.status = "503"
    /\ thrown = <<"HTTP error ", "503", ": ", "Service Unavailable">>

\* the categories other than hosting_provider that have been evaluated hold
\* what their extractor yields for the page and the headers alone
OthersUnaffected ==
    /\ Has("html_structure") => vals["html_structure"] = analyzeHtmlStructure(page)
    /\ Has("css_frameworks") => vals["css_frameworks"] = detectCssFrameworks(page)
    /\ Has("javascript_libraries") =>
           vals["javascript_libraries"] = detectJavascriptLibraries(page)
    /\ Has("server_technologies") =>
           \E body \in {page, BlankBody} :
               vals["server_technologies"] = detectServerTechnologies(headers, body)
    /\ Has("cdn_provider") => vals["cdn_provider"] = detectCdnProvider(headers)
    /\ Has("cms") => vals["cms"] = detectCMS(page)
    /\ Has("ecommerce_platform") =>
           vals["ecommerce_platform"] = detectEcommercePlatform(page)

\* C5: the hosting lookup never throws and never aborts the analysis: once
\* its API call has ended it has returned a value and the analysis has gone
\* on to the report's categories; the value is "Host Finder Error" for a
\* failed call or a malformed body, "unable to find provider" for a non-200
\* result code or an empty or missing results list, and "Provider: <isp_name
\* of the first result>" only for code 200 with a non-empty list; the other
\* categories do not depend on how the lookup ended.
C5_HostingLookupNeverAborts ==
    hostReply.kind # "none" =>
        /\ hostingProvider # None
        /\ Has("html_structure")
        /\ hostReply.kind \in {"error", "malformed"} =>
               hostingProvider = S("Host Finder Error")
        /\ (hostReply.kind = "body" /\ hostReply.code # 200) =>
               hostingProvider = S("unable to find provider")
        /\ (hostReply.kind = "body" /\ (~hostReply.hasResults \/ hostReply.results = <<>>)) =>
               hostingProvider = S("unable to find provider")
        /\ hostingProvider[1] = "Provider: " =>
               /\ hostReply.kind = "body" /\ hostReply.code = 200
               /\ Len(hostReply.results) > 0
               /\ hostingProvider = <<"Provider: ">> \o Render(hostReply.results[1])
        /\ (hostReply.kind = "body" /\ hostReply.code = 200 /\ Len(hostReply.results) > 0) =>
               hostingProvider[1] = "Provider: "
        /\ Has("hosting_provider") => vals["hosting_provider"] = hostingProvider
        /\ OthersUnaffected

C5_Witness ==
    /\ hostReply.kind = "body" /\ hostReply.code = 404
    /\ hostingProvider = S("unable to find provider")
    /\ Has("hosting_provider") /\ Has("ecommerce_platform")

\* C6: a POST whose url is missing, empty or not a valid URL is answered
\* at once with a client error (status 4xx), at every entry point, and no
\* call to the HTTP client is made for it.
C6_BadUrlRejectedWithoutCalls ==
    (method = "POST" /\ ~ParsesAsUrl(bodyUrl)) =>
        /\ calls = <<>>
        /\ pc \in {"received", "done"}
        /\ pc = "done" => (Len(res) = 1 /\ res[1].status \in 400..499)

\* C12: the analysis of the minimal page, answered with no matching header,
\* delivers a report with css_frameworks = [], javascript_libraries = [],
\* cms = "Unknown", ecommerce_platform = "Unknown",
\* accessibility_analysis.altTextForImages = false and
\* seo_analysis.metaTitle = "T".
C12_MinimalPageReport ==
    (pc = "done" /\ page = MinimalPage /\ headers = << >>) =>
        /\ result.returned
        /\ LET a == result.analysis_results
           IN  /\ a["css_frameworks"] = <<>>
               /\ a["javascript_libraries"] = <<>>
               /\ a["cms"] = Unknown
               /\ a["ecommerce_platform"] = Unknown
               /\ a["accessibility_analysis"].altTextForImages = FALSE
               /\ a["seo_analysis"].metaTitle = S("T")

\* C20: failures of the robots.txt and sitemap fetches stay inside their
\* categories: every analysis whose primary GET succeeded is answered with
\* status 200 and a report in which robots_txt and sitemap_xml are present
\* (a fetched body or the "Unable to fetch ..." placeholder).
C20_FetchFailuresStayLocal ==
    (pc = "done" /\ primary.kind = "ok") =>
        /\ Len(res) = 1
        /\ res[1].status = 200
        /\ res[1].body.kind = "report"
        /\ {"robots_txt", "sitemap_xml"} \subseteq DOMAIN res[1].body.report.analysis_results

\* the GETs sent to the target URL so far
TargetGets == { i \in 1..Len(calls) : calls[i] = "GET target" }

\* C21: during one analysis at most one GET is sent to the target URL: no
\* extractor issues a request of its own to the target.
C21_OneGetToTarget ==
    Cardinality(TargetGets) <= 1

\* C22: the hosting lookup does not hold back the robots.txt and sitemap
\* fetches: while the hosting lookup is outstanding, the robots.txt request
\* has been issued as well.
C22_LookupDoesNotDelayFetches ==
    pc = "hosting" => \E i \in 1..Len(calls) : calls[i] = "GET robots.txt"

\* the serverless handlers
HandlerEntries == { "part_000", "part_001", "api/analyze.ts" }

\* C29: a handler sends exactly one response per request and runs the
\* analysis only for a POST with a non-empty url: OPTIONS is answered 200
\* without analysis, any other method but POST 405 with an Allow header, a
\* POST without url 400, a POST whose analysis returns 200 with the result
\* and a POST whose analysis throws 500 with an error object.
C29_OneResponsePerRequest ==
    entry \in HandlerEntries =>
        /\ Len(res) <= 1
        /\ calls # <<>> => (method = "POST" /\ Truthy(bodyUrl))
        /\ pc = "done" =>
             /\ Len(res) = 1
             /\ method = "OPTIONS" => (res[1].status = 200 /\ calls = <<>>)
             /\ method \notin {"POST", "OPTIONS"} =>
                    (res[1].status = 405 /\ res[1].allow = <<"POST">> /\ calls = <<>>)
             /\ (method = "POST" /\ ~Truthy(bodyUrl)) =>
                    (res[1].status = 400 /\ calls = <<>>)
             /\ (method = "POST" /\ Truthy(bodyUrl) /\ thrown = None) =>
                    (res[1].status = 200 /\ res[1].body.kind = "report")
             /\ (method = "POST" /\ Truthy(bodyUrl) /\ thrown # None) =>
                    (res[1].status = 500 /\ res[1].body.kind = "json")

-----------------------------------------------------------------------------
(* fetchSitemapXml, from one await to the next *)

\* how a GET can end: a response with a status and a body arrives, or none
\* does (timeout after 5000 ms, connection error)
Reply(arrived, status, body) == [arrived |-> arrived, status |-> status, body |-> body]
Pending == [arrived |-> FALSE, status |-> -1, body |-> EmptyStr]
NoReply == Reply(FALSE, 0, EmptyStr)
SitemapReplies ==
    { Reply(TRUE, 200, S("<urlset></urlset>")), Reply(TRUE, 200, EmptyStr),
      Reply(TRUE, 304, EmptyStr),
      Reply(TRUE, 404, S("Not Found")), Reply(TRUE, 503, EmptyStr),
      NoReply }

\* mutant: axios' default validateStatus (2xx only)
Resolves_DefaultValidate(reply) == reply.arrived /\ reply.status >= 200 /\ reply.status < 300

\* the promise of axios.get resolves: validateStatus: (status) => status < 400
Resolves(reply) == reply.arrived /\ reply.status < 400

Origins == { S("https://example.com") }
\* sitemapUrls
sitemapUrls(baseURL) ==
    << baseURL \o S("/sitemap.xml"), baseURL \o S("/sitemap_index.xml"),
       baseURL \o S("/sitemap1.xml"), baseURL \o S("/sitemap-index.xml") >>

Request(url) == [url |-> url, reply |-> Pending]

InitSitemap ==
    /\ Idle
    /\ pc = "fetchSitemapXml"
    /\ page = NoPage
    /\ headers = <<>>
    /\ vals \in { ("baseURL" :> o) : o \in Origins }

FetchFrame == UNCHANGED <<entry, method, bodyUrl, primary, page, headers, hostReply,
                          hostingProvider, thrown, result, res, diagram, built>>

\* fetchSitemapXml(baseURL) up to its first await: the first candidate is
\* requested
Call_fetchSitemapXml ==
    /\ pc = "fetchSitemapXml"
    /\ calls' = << Request(sitemapUrls(vals["baseURL"])[1]) >>
    /\ pc' = "awaiting"
    /\ UNCHANGED vals
    /\ FetchFrame

\* the pending GET ends: its body is returned, or the error is logged and
\* the loop goes on to the next candidate, or the loop is over
SitemapGetSettles ==
    /\ pc = "awaiting"
    /\ \E reply \in SitemapReplies :
        LET k == Len(calls)
            settled == [calls EXCEPT ![k].reply = reply]
        IN  IF Resolves(reply)
            THEN /\ calls' = settled
                 /\ vals' = vals @@ ("sitemap_xml" :> reply.body)
                 /\ pc' = "returned"
            ELSE IF k < Len(sitemapUrls(vals["baseURL"]))
            THEN /\ calls' = Append(settled, Request(sitemapUrls(vals["baseURL"])[k + 1]))
                 /\ pc' = "awaiting"
                 /\ UNCHANGED vals
            ELSE /\ calls' = settled
                 /\ vals' = vals @@ ("sitemap_xml" :> S("Unable to fetch sitemap.xml"))
                 /\ pc' = "returned"
    /\ FetchFrame

NextSitemap == Call_fetchSitemapXml \/ SitemapGetSettles

SpecSitemap == InitSitemap /\ [][NextSitemap]_vars

\* the candidate paths, in the order the claim gives them
Candidates == << "/sitemap.xml", "/sitemap_index.xml", "/sitemap1.xml", "/sitemap-index.xml" >>

\* a request that was answered with a status below 400
Answered(r) == r.reply.arrived /\ r.reply.status < 400
\* a request that failed: no answer, or an answer with status 400 or more
FailedRequest(r) == r.reply # Pending /\ ~Answered(r)

-----------------------------------------------------------------------------
(* Two invocations of analyzeWebsite in flight at once.  Each call of the
   async function has its own locals (response, document, hostingProvider,
   analysis); the rule tables are const arrays created inside each detector
   call.  The invocations interleave at their awaits.  In this
   specification pc, calls, primary, page, headers, hostReply,
   hostingProvider, vals and thrown hold one value per invocation. *)

Invocations == {1, 2}
Each(v) == [i \in Invocations |-> v]

\* the pages, headers and hosting replies the two invocations may receive
TwoPages ==
    { BlankBody,
      [words |-> {"wp-content"}, nodes |-> {}, loaded |-> TRUE],
      [words |-> {"react", "shopify"},
       nodes |-> { [tag |-> "link", qual |-> "stylesheet", val |-> "bootstrap.min.css"] },
       loaded |-> TRUE] }
TwoHeaders ==
    { ("cf-ray" :> S("7d1a2b3c4d5e-AMS")) @@ ("via" :> S("1.1 cloudflare")),
      ("server" :> S("Apache/2.4.41 (Ubuntu)")) @@ ("x-powered-by" :> S("PHP/8.1.2")) }
TwoReplies ==
    { HostFailure, HostBody(200, TRUE, <<>>),
      HostBody(200, TRUE, << S("Hetzner Online GmbH") >>) }
TwoFailures == { HttpError("404", "Not Found"), NoResponseError }

\* mutant: the document is kept in a module-level variable, so an
\* invocation reads the page the other invocation has parsed
DocumentOf_ModuleLevel(i) ==
    LET j == CHOOSE k \in Invocations : k # i
    IN  IF page[j].loaded THEN page[j] ELSE page[i]

\* the document local of invocation i
DocumentOf(i) == page[i]

InitTwo ==
    /\ entry = "none" /\ method = "none"
    /\ bodyUrl \in { Each(u) : u \in AbsoluteUrls }
    /\ pc = Each("start")
    /\ calls = Each(<<>>)
    /\ primary = Each(NoOutcome)
    /\ page = Each(NoPage)
    /\ headers = Each(<< >>)
    /\ hostReply = Each(NoOutcome)
    /\ hostingProvider = Each(None)
    /\ vals = Each(NoVals)
    /\ thrown = Each(None)
    /\ result = NoResult /\ res = <<>> /\ diagram = None /\ built = <<>>

TwoFrame == UNCHANGED <<entry, method, bodyUrl, result, res, diagram, built>>

\* the catch block of invocation i runs on error e
CatchOf(i, e) ==
    /\ thrown' = [thrown EXCEPT ![i] = Rethrow(e)]
    /\ pc' = [pc EXCEPT ![i] = "threw"]

\* invocation i runs from its call to its first await
Invoke(i) ==
    /\ pc[i] = "start"
    /\ calls' = [calls EXCEPT ![i] = Append(@, "GET target")]
    /\ pc' = [pc EXCEPT ![i] = "primary"]
    /\ UNCHANGED <<primary, page, headers, hostReply, hostingProvider, vals, thrown>>
    /\ TwoFrame

\* the primary GET of invocation i returns a page
PrimarySucceedsOf(i) ==
    /\ pc[i] = "primary"
    /\ primary' = [primary EXCEPT ![i] = Fetched]
    /\ \E p \in TwoPages : page' = [page EXCEPT ![i] = p]
    /\ \E h \in TwoHeaders : headers' = [headers EXCEPT ![i] = h]
    /\ calls' = [calls EXCEPT ![i] = Append(@, "GET who-hosts-this")]
    /\ pc' = [pc EXCEPT ![i] = "hosting"]
    /\ UNCHANGED <<hostReply, hostingProvider, vals, thrown>>
    /\ TwoFrame

\* the primary GET of invocation i fails
PrimaryFailsOf(i) ==
    /\ pc[i] = "primary"
    /\ \E e \in TwoFailures :
        /\ primary' = [primary EXCEPT ![i] = Failed(e)]
        /\ CatchOf(i, e)
    /\ UNCHANGED <<calls, page, headers, hostReply, hostingProvider, vals>>
    /\ TwoFrame

\* the hosting lookup of invocation i ends; its literal is evaluated up to
\* server_technologies
HostingSettlesOf(i) ==
    /\ pc[i] = "hosting"
    /\ \E reply \in TwoReplies :
        /\ hostReply' = [hostReply EXCEPT ![i] = reply]
        /\ hostingProvider' = [hostingProvider EXCEPT
                                 ![i] = detectHostingProvider(bodyUrl[i], reply).value]
    /\ vals' = [vals EXCEPT ![i] =
                   ("html_structure" :> analyzeHtmlStructure(DocumentOf(i)))
                   @@ ("css_frameworks" :> detectCssFrameworks(DocumentOf(i)))
                   @@ ("javascript_libraries" :> detectJavascriptLibraries(DocumentOf(i)))]
    /\ calls' = [calls EXCEPT ![i] = Append(@, "GET target")]
    /\ pc' = [pc EXCEPT ![i] = "refetch"]
    /\ UNCHANGED <<primary, page, headers, thrown>>
    /\ TwoFrame

\* the GET of detectServerTechnologies of invocation i returns; its literal
\* is evaluated up to seo_analysis
RefetchSucceedsOf(i) ==
    /\ pc[i] = "refetch"
    /\ vals' = [vals EXCEPT ![i] =
                   @ @@ ("server_technologies" :>
                             detectServerTechnologies(headers[i], DocumentOf(i)))
                     @@ ("hosting_provider" :> hostingProvider[i])
                     @@ ("cdn_provider" :> detectCdnProvider(headers[i]))
                     @@ ("cms" :> detectCMS(DocumentOf(i)))
                     @@ ("ecommerce_platform" :> detectEcommercePlatform(DocumentOf(i)))]
    /\ pc' = [pc EXCEPT ![i] = "seo"]
    /\ UNCHANGED <<calls, primary, page, headers, hostReply, hostingProvider, thrown>>
    /\ TwoFrame

\* the GET of detectServerTechnologies of invocation i fails
RefetchFailsOf(i) ==
    /\ pc[i] = "refetch"
    /\ \E e \in TwoFailures : CatchOf(i, e)
    /\ UNCHANGED <<calls, primary, page, headers, hostReply, hostingProvider, vals>>
    /\ TwoFrame

\* the promise of analyzeSEO of invocation i settles
SeoSettlesOf(i) ==
    /\ pc[i] = "seo"
    /\ analyzeSEO(DocumentOf(i)).threw
    /\ CatchOf(i, analyzeSEO(DocumentOf(i)).error)
    /\ UNCHANGED <<calls, primary, page, headers, hostReply, hostingProvider, vals>>
    /\ TwoFrame

NextTwo ==
    \E i \in Invocations :
        \/ Invoke(i)
        \/ PrimarySucceedsOf(i)
        \/ PrimaryFailsOf(i)
        \/ HostingSettlesOf(i)
        \/ RefetchSucceedsOf(i)
        \/ RefetchFailsOf(i)
        \/ SeoSettlesOf(i)

SpecTwo == InitTwo /\ [][NextTwo]_vars

\* what a lone invocation holds after it received the responses that
\* invocation i received: the values of its analysis literal ...
AloneVals(i) ==
    LET upToServer ==
            ("html_structure" :> analyzeHtmlStructure(page[i]))
            @@ ("css_frameworks" :> detectCssFrameworks(page[i]))
            @@ ("javascript_libraries" :> detectJavascriptLibraries(page[i]))
        upToSeo ==
            upToServer
            @@ ("server_technologies" :> detectServerTechnologies(headers[i], page[i]))
            @@ ("hosting_provider" :> detectHostingProvider(bodyUrl[i], hostReply[i]).value)
            @@ ("cdn_provider" :> detectCdnProvider(headers[i]))
            @@ ("cms" :> detectCMS(page[i]))
            @@ ("ecommerce_platform" :> detectEcommercePlatform(page[i]))
    IN  IF hostReply[i].kind = "none" THEN NoVals
        ELSE IF "cms" \in DOMAIN vals[i] THEN upToSeo
        ELSE upToServer

\* ... and the errors it may have thrown
AloneThrown(i) ==
    IF pc[i] # "threw" THEN { None }
    ELSE IF primary[i].kind = "failed" THEN { Rethrow(primary[i].error) }
    ELSE IF "cms" \in DOMAIN vals[i] THEN { Rethrow(InvalidUrlError) }
    ELSE { Rethrow(e) : e \in TwoFailures }

-----------------------------------------------------------------------------
(* analyzeAccessibility.  In this specification page is a document given by
   its lang attribute and the child nodes of its body in document order. *)

\* most child nodes of one body
MaxChildren == 3

Space == " "
\* String.prototype.trim on a text given character by character
RECURSIVE TrimStart(_)
TrimStart(s) == IF s # <<>> /\ Head(s) = Space THEN TrimStart(Tail(s)) ELSE s
RECURSIVE TrimEnd(_)
TrimEnd(s) ==
    IF s # <<>> /\ s[Len(s)] = Space THEN TrimEnd(SubSeq(s, 1, Len(s) - 1)) ELSE s
Trim(s) == TrimEnd(TrimStart(s))

\* a child node: an element with its alt attribute and text content, or a
\* text node
Element(tag, alt, text) == [tag |-> tag, alt |-> alt, text |-> text]
TextNode == Element("#text", EmptyStr, << Space >>)
ChildPool ==
    { Element("img", EmptyStr, <<>>), Element("img", S(" "), <<>>),
      Element("img", S("logo"), <<>>),
      Element("a", EmptyStr, <<>>), Element("a", EmptyStr, << Space, Space >>),
      Element("a", EmptyStr, << Space, "x", Space >>),
      Element("audio", EmptyStr, <<>>), Element("video", EmptyStr, <<>>),
      Element("p", EmptyStr, << "x" >>), Element("nav", EmptyStr, <<>>),
      TextNode }
IsElement(n) == n.tag # "#text"

ChildSeqs == UNION { [1..n -> ChildPool] : n \in 0..MaxChildren }
Documents == { [lang |-> l, children |-> c] : l \in { EmptyStr, S("en") }, c \in ChildSeqs }

\* document.querySelectorAll(tag), as positions in document order
QuerySelectorAll(doc, tags) ==
    { i \in 1..Len(doc.children) : doc.children[i].tag \in tags }

\* Element.tagName of an HTML element is the upper-cased local name
ToUpper ==
    ("img" :> "IMG") @@ ("a" :> "A") @@ ("audio" :> "AUDIO") @@ ("video" :> "VIDEO")
    @@ ("p" :> "P") @@ ("nav" :> "NAV")
TagName(n) == ToUpper[n.tag]
ToLowerCase(t) == CHOOSE l \in DOMAIN ToUpper : ToUpper[l] = t

Null == [tag |-> "#null", alt |-> EmptyStr, text |-> <<>>]
\* Node.nextElementSibling: the next sibling that is an element, or null
NextElementSibling(doc, i) ==
    LET later == { j \in (i + 1)..Len(doc.children) : IsElement(doc.children[j]) }
    IN  IF later = {} THEN Null
        ELSE doc.children[CHOOSE j \in later : \A k \in later : j <= k]

FollowedByP(doc, i) ==
    /\ NextElementSibling(doc, i) # Null
    /\ ToLowerCase(TagName(NextElementSibling(doc, i))) = "p"

\* mutant: some() in place of every()
detectAudioTranscripts_Some(doc) ==
    \E i \in QuerySelectorAll(doc, {"audio"}) : FollowedByP(doc, i)

detectAudioTranscripts(doc) ==
    \A i \in QuerySelectorAll(doc, {"audio"}) : FollowedByP(doc, i)

detectVideoTranscripts(doc) ==
    \A i \in QuerySelectorAll(doc, {"video"}) : FollowedByP(doc, i)

\* the placeholder always resolves with 4.5
calculateContrastRatio(doc) == S("4.5")

SemanticTags == { "header", "nav", "main", "section", "article", "aside", "footer" }

InitAccess ==
    /\ Idle
    /\ pc = "analyzeAccessibility"
    /\ page \in Documents
    /\ headers = <<>>
    /\ vals = NoVals

AccessFrame == UNCHANGED <<entry, method, bodyUrl, calls, primary, page, headers,
                           hostReply, hostingProvider, thrown, result, res, diagram,
                           built>>

\* analyzeAccessibility(document) up to its await
Call_analyzeAccessibility ==
    /\ pc = "analyzeAccessibility"
    /\ vals' = ("semanticHTML" :> (QuerySelectorAll(page, SemanticTags) # {}))
               @@ ("altTextForImages" :>
                       (\A i \in QuerySelectorAll(page, {"img"}) :
                            Truthy(page.children[i].alt)))
               @@ ("descriptiveLinkText" :>
                       (\A i \in QuerySelectorAll(page, {"a"}) :
                            Trim(page.children[i].text) # <<>>))
               @@ ("languageAttribute" :> page.lang)
    /\ pc' = "contrast"
    /\ AccessFrame

\* the promise of calculateContrastRatio resolves; the rest of the literal
\* is evaluated and returned
ContrastSettles ==
    /\ pc = "contrast"
    /\ vals' = vals @@ ("contrastRatio" :> calculateContrastRatio(page))
                    @@ ("audioTranscripts" :> detectAudioTranscripts(page))
                    @@ ("videoTranscripts" :> detectVideoTranscripts(page))
    /\ pc' = "returned"
    /\ AccessFrame

NextAccess == Call_analyzeAccessibility \/ ContrastSettles
SpecAccess == InitAccess /\ [][NextAccess]_vars

\* the positions of the body's elements of one tag
Of(tag) == { i \in 1..Len(page.children) : page.children[i].tag = tag }
\* the element right after position i, text nodes aside, is a p
NextIsP(i) ==
    \E j \in (i + 1)..Len(page.children) :
        /\ page.children[j].tag = "p"
        /\ \A k \in (i + 1)..(j - 1) : page.children[k].tag = "#text"
\* a text has a character that is not white space
HasInk(text) == \E k \in 1..Len(text) : text[k] # Space

\* C24: the four booleans of analyzeAccessibility: altTextForImages holds
\* exactly when every img has a non-empty alt, descriptiveLinkText exactly
\* when every anchor has non-empty trimmed text, audioTranscripts and
\* videoTranscripts exactly when every audio / video element is directly
\* followed by a p sibling; each is true when the page has no such element.
C24_AccessibilityBooleans ==
    pc = "returned" =>
        /\ vals["altTextForImages"] = (\A i \in Of("img") : Len(page.children[i].alt) > 0)
        /\ vals["descriptiveLinkText"] = (\A i \in Of("a") : HasInk(page.children[i].text))
        /\ vals["audioTranscripts"] = (\A i \in Of("audio") : NextIsP(i))
        /\ vals["videoTranscripts"] = (\A i \in Of("video") : NextIsP(i))
        /\ Of("img") = {} => vals["altTextForImages"] = TRUE
        /\ Of("a") = {} => vals["descriptiveLinkText"] = TRUE
        /\ Of("audio") = {} => vals["audioTranscripts"] = TRUE
        /\ Of("video") = {} => vals["videoTranscripts"] = TRUE

\* a page with an audio element that has its p, a video element that has
\* none, and no image
C24_Witness ==
    /\ pc = "returned"
    /\ Of("audio") # {} /\ vals["audioTranscripts"] = TRUE
    /\ Of("video") # {} /\ vals["videoTranscripts"] = FALSE
    /\ Of("img") = {} /\ vals["altTextForImages"] = TRUE

-----------------------------------------------------------------------------
(* Termination of analyzeWebsite and of the loop of fetchSitemapXml.  Every
   pending request is settled in the end (axios resolves or rejects each
   call: the network answers, fails, or the timeout fires) and the event
   loop runs every continuation that is ready, hence weak fairness of the
   steps. *)

InitLive == Init \/ InitSitemap
NextLive == Next \/ NextSitemap
SpecLive == InitLive /\ [][NextLive]_vars /\ WF_vars(NextLive)

\* an invocation is waiting on one of its awaits
InFlight == pc \in {"primary", "hosting", "refetch", "seo", "after_seo", "awaiting"}
\* the invocation has returned or thrown (and its caller may have answered)
Completed == pc \in {"threw", "returned", "done"}

\* C25: every invocation that is waiting on a network call is eventually
\* completed, by a return or by one thrown error; it never both returns and
\* throws, the error it threw is never replaced, and once it is completed no
\* further network call is issued.
C25_InvocationCompletes ==
    /\ InFlight ~> (pc \in {"threw", "returned"})
    /\ [](~(result.returned /\ thrown # None))
    /\ [][thrown # None => thrown' = thrown]_vars
    /\ [][Completed => calls' = calls]_vars

\* an invocation that issued all three of its requests has thrown
C25_Witness ==
    /\ pc = "threw" /\ entry \in Entries
    /\ Len(calls) = 3 /\ "cms" \in DOMAIN vals

-----------------------------------------------------------------------------
(* The DNS-based detectHostingProvider of src/server.js and the await of it
   in that file's analyzeWebsite.  In this specification headers are the
   response headers, bodyUrl is the url and page is the html, each text
   given as its fragments; hostingProvider is the promise. *)

\* one entry of hostingProviders; a missing headers / url / html list
\* behaves as an empty one (provider.x && provider.x.some(...))
Provider(name, hdrs, urls, htmls) ==
    [name |-> name, headers |-> hdrs, url |-> urls, html |-> htmls]
Star == "*"
hostingProviders ==
    << Provider("GitHub Pages", << <<"server", Star, "=\"GitHub.com\"">> >>, <<"github.io">>, <<>>),
       Provider("Squarespace", << <<"server", Star, "=\"Squarespace\"">> >>, <<>>, <<>>),
       Provider("Wix", << <<"x-wix-request-id">> >>, <<>>, <<>>),
       Provider("Shopify", << <<"x-shopify-stage">> >>, <<>>, <<>>),
       Provider("Heroku", <<>>, <<"herokuapp.com">>, <<>>),
       Provider("Netlify", <<>>, <<"netlify.app">>, <<>>),
       Provider("Vercel", <<>>, <<"vercel.app">>, <<>>),
       Provider("WP Engine", <<>>, <<"wpengine.com">>, <<>>),
       Provider("Cloudflare Pages", <<>>, <<"cloudflarestore.com">>, <<>>),
       Provider("Microsoft Azure", <<>>, <<"azurewebsites.net">>, <<>>),
       Provider("Amazon Web Services", <<>>, <<"amazonaws.com">>, <<>>),
       Provider("WordPress", <<>>, <<>>, <<"wp-content">>) >>

\* header.split('*')[0] and header.split('*')[1]; the latter is undefined
\* for a pattern without '*', and includes(undefined) looks for "undefined"
SplitKey(pattern) == pattern[1]
SplitNeedle(pattern) == IF Len(pattern) >= 3 THEN pattern[3] ELSE "undefined"

HeaderPatternMatches(h, pattern) ==
    /\ SplitKey(pattern) \in DOMAIN h
    /\ Truthy(h[SplitKey(pattern)])
    /\ StrIncludes(h[SplitKey(pattern)], SplitNeedle(pattern))

\* the test of the first loop for one provider
ProviderMatches(p, h, url, html) ==
    \/ \E i \in 1..Len(p.headers) : HeaderPatternMatches(h, p.headers[i])
    \/ \E i \in 1..Len(p.url) : StrIncludes(url, p.url[i])
    \/ \E i \in 1..Len(p.html) : StrIncludes(html, p.html[i])

\* the states of a promise
PendingPromise == [state |-> "pending", value |-> None]
Fulfilled(v) == [state |-> "fulfilled", value |-> v]
NoPromise == [state |-> "none", value |-> None]

\* detectHostingProvider(headers, url, html): the promise as the executor
\* leaves it.  resolveDns is declared in the executor and never called, so
\* after the loop neither resolve nor reject has run.
detectHostingProviderDns(h, url, html) ==
    LET hits == { i \in 1..Len(hostingProviders) :
                      ProviderMatches(hostingProviders[i], h, url, html) }
    IN  IF hits = {} THEN PendingPromise
        ELSE Fulfilled(S(hostingProviders[CHOOSE i \in hits : \A j \in hits : i <= j].name))

DnsHeaders ==
    { << >>,
      ("server" :> S("GitHub.com")),
      ("server" :> <<"origin", "=\"GitHub.com\"">>),
      ("x-wix-request-id" :> S("1700000000.123")),
      ("x-wix-request-id" :> <<"req-", "undefined">>),
      ("server" :> S("nginx")) @@ ("x-shopify-stage" :> S("production")) }
DnsUrls ==
    { <<"https://", "example.com", "/shop">>,
      <<"https://", "user.", "github.io", "/">>,
      <<"https://", "app.", "netlify.app", "/">>,
      <<"https://", "shop.", "herokuapp.com">> }
DnsHtmls ==
    { <<>>, <<"<html>", "wp-content", "</html>">>, <<"<html>", "react", "</html>">> }

\* the primary GET of analyzeWebsite has returned
InitDns ==
    /\ entry = "none" /\ method = "none"
    /\ pc = "detectHostingProvider"
    /\ bodyUrl \in DnsUrls
    /\ headers \in DnsHeaders
    /\ page \in DnsHtmls
    /\ calls = <<>> /\ primary = Fetched /\ hostReply = NoOutcome
    /\ hostingProvider = NoPromise
    /\ vals = NoVals /\ thrown = None /\ result = NoResult
    /\ res = <<>> /\ diagram = None /\ built = <<>>

DnsFrame == UNCHANGED <<entry, method, bodyUrl, calls, primary, page, headers,
                        hostReply, thrown, result, res, diagram, built>>

\* analyzeWebsite calls detectHostingProvider and awaits its promise
Call_detectHostingProviderDns ==
    /\ pc = "detectHostingProvider"
    /\ hostingProvider' = detectHostingProviderDns(headers, bodyUrl, page)
    /\ pc' = "awaiting"
    /\ UNCHANGED vals
    /\ DnsFrame

\* the awaited promise is fulfilled: analyzeWebsite goes on to its report
HostingPromiseFulfilled ==
    /\ pc = "awaiting"
    /\ hostingProvider.state = "fulfilled"
    /\ vals' = ("hosting_provider" :> hostingProvider.value)
    /\ pc' = "returned"
    /\ UNCHANGED hostingProvider
    /\ DnsFrame

NextDns == Call_detectHostingProviderDns \/ HostingPromiseFulfilled
\* a settled promise resumes its awaiter
SpecDns == InitDns /\ [][NextDns]_vars /\ WF_vars(NextDns)

\* C26: the promise of the DNS-based detectHostingProvider always settles,
\* so the analyzeWebsite call that awaits it always goes on to its report.
C26_HostingPromiseSettles ==
    (pc = "awaiting") ~> (pc = "returned")

-----------------------------------------------------------------------------
(* The hosting lookup's result in the diagram: detectHostingProvider
   followed by generateArchitectureDiagram on a report that holds its
   result as hosting_provider. *)

\* the rest of the report: detector results, all of them strings
HostingBase ==
    { r \in CallReports :
        \A k \in DOMAIN r \cap ListKeys : \A i \in 1..Len(r[k]) : IsString(r[k][i]) }

\* mutant: a failed lookup is reported as "Unknown"
AwaitHostingProvider_UnknownOnFailure(url, reply) ==
    IF detectHostingProvider(url, reply).value
         \in { S("unable to find provider"), S("Host Finder Error") }
    THEN Unknown
    ELSE detectHostingProvider(url, reply).value

\* const hostingProvider = await detectHostingProvider(url)
AwaitHostingProvider(url, reply) == detectHostingProvider(url, reply).value

InitHosting ==
    /\ entry = "none" /\ method = "none"
    /\ bodyUrl \in AbsoluteUrls
    /\ pc = "lookup"
    /\ calls = <<>> /\ primary = Fetched
    /\ hostReply \in HostReplies
    /\ hostingProvider = None
    /\ page = NoPage /\ headers = <<>>
    /\ vals \in HostingBase
    /\ thrown = None /\ result = NoResult
    /\ res = <<>> /\ diagram = None /\ built = <<>>

\* the lookup ends and its result becomes the report's hosting_provider
Apply_detectHostingProvider ==
    /\ pc = "lookup"
    /\ hostingProvider' = AwaitHostingProvider(bodyUrl, hostReply)
    /\ vals' = ("hosting_provider" :> AwaitHostingProvider(bodyUrl, hostReply)) @@ vals
    /\ pc' = "build"
    /\ UNCHANGED <<entry, method, bodyUrl, calls, primary, page, headers, hostReply,
                   thrown, result, res, diagram, built>>

NextHosting == Apply_detectHostingProvider \/ Apply_generateArchitectureDiagram
SpecHosting == InitHosting /\ [][NextHosting]_vars

\* the lookup did not yield a provider: the call failed, the body was
\* malformed, the code was not 200 or there was no result
LookupFailed ==
    ~(hostReply.kind = "body" /\ hostReply.code = 200
      /\ hostReply.hasResults /\ Len(hostReply.results) > 0)
Sentinels == { S("unable to find provider"), S("Host Finder Error") }

\* C27: after a failed hosting lookup the report's hosting_provider is one
\* of the two sentinels and the diagram has exactly one leaf edge from B
\* labelled "Hosting: <sentinel>"; a diagram has no Hosting leaf only when
\* hosting_provider is empty or "Unknown".
C27_SentinelShownAsProvider ==
    pc = "built" =>
        /\ LookupFailed =>
             /\ vals["hosting_provider"] \in Sentinels
             /\ Cardinality(ScalarLeaves("hosting_provider")) = 1
             /\ \A i \in ScalarLeaves("hosting_provider") :
                  /\ diagram[i].from = RootB
                  /\ diagram[i].label = S("Hosting: ") \o vals["hosting_provider"]
        /\ ScalarLeaves("hosting_provider") = {} =>
             vals["hosting_provider"] \in { EmptyStr, Unknown }

\* the lookup call failed and the diagram shows "Hosting: Host Finder Error"
C27_Witness ==
    /\ pc = "built" /\ hostReply = HostFailure
    /\ \E i \in 1..Len(diagram) :
         /\ diagram[i].kind = "edge" /\ diagram[i].from = RootB
         /\ diagram[i].label = <<"Hosting: ", "Host Finder Error">>

-----------------------------------------------------------------------------
(* The App component and its form (UserInterface).  In this specification
   entry is the variant of App, vals is the component's state (results,
   loading, error) and calls are the POST requests of handleAnalyze, each
   pending or handled. *)

\* most requests submitted in one session
MaxRequests == 2

\* the value null of a piece of state
JsNull == <<"#null">>
UiEntries == { "part_003", "App.tsx" }
UiUrls == { S("https://example.com/shop"), S("https://example.org/") }

\* how axios.post ends: a 2xx response with its data, or an error that
\* carries the response, only the request, or neither
PostOk(data) == [kind |-> "ok", data |-> data]
PostError(response, request, status, dataError, message) ==
    [kind |-> "error", response |-> response, request |-> request,
     status |-> status, dataError |-> dataError, message |-> message]
PostReplies ==
    { PostOk(S("{analysis_results, architecture_diagram}")),
      PostError(TRUE, TRUE, "500", S("An unexpected error occurred"),
                S("Request failed with status code 500")),
      PostError(TRUE, TRUE, "400", S("URL is required"),
                S("Request failed with status code 400")),
      PostError(TRUE, TRUE, "405", Undefined, S("Request failed with status code 405")),
      PostError(FALSE, TRUE, "", Undefined, S("timeout of 30000ms exceeded")),
      PostError(FALSE, FALSE, "", Undefined, EmptyStr) }

\* part_003 rethrows the request's error as a new Error that keeps only
\* the message; App.tsx has no inner catch
Caught(variant, e) ==
    IF variant = "part_003"
    THEN PostError(FALSE, FALSE, "", Undefined, <<"Error during request: ">> \o e.message)
    ELSE e

\* the text handed to setError
ErrorText(variant, e) ==
    IF e.response
    THEN (IF variant = "part_003"
          THEN <<"Request failed with status code: ">>
          ELSE <<"Request failed with status code ">>)
         \o <<e.status, ": ">>
         \o (IF Truthy(e.dataError) THEN e.dataError ELSE S("Unknown error"))
    ELSE IF e.request THEN S("No response received from the server")
    ELSE IF Truthy(e.message) THEN e.message
    ELSE S("An unexpected error occurred")

State(results, loading, error) ==
    [results |-> results, loading |-> loading, error |-> error]
PostRequest(url) == [url |-> url, pending |-> TRUE, reply |-> NoOutcome]
Outstanding == { i \in 1..Len(calls) : calls[i].pending }

\* mutant: the submit control is never disabled
Disabled_Never == FALSE

\* <button type="submit" disabled={loading}> and <input disabled={loading}>
Disabled == vals.loading

InitUi ==
    /\ entry \in UiEntries
    /\ method = "none" /\ bodyUrl = None
    /\ pc = "mounted"
    /\ calls = <<>>
    /\ vals = State(JsNull, FALSE, JsNull)
    /\ primary = NoOutcome /\ page = NoPage /\ headers = <<>>
    /\ hostReply = NoOutcome /\ hostingProvider = None
    /\ thrown = None /\ result = NoResult
    /\ res = <<>> /\ diagram = None /\ built = <<>>

UiFrame == UNCHANGED <<entry, method, pc, primary, page, headers, hostReply,
                       hostingProvider, thrown, result, res, diagram, built>>

\* the form is submitted: handleSubmit calls handleAnalyze, which runs up
\* to its await
Submit ==
    /\ ~Disabled
    /\ Len(calls) < MaxRequests
    /\ \E url \in UiUrls :
        /\ bodyUrl' = url
        /\ calls' = Append(calls, PostRequest(url))
    /\ vals' = State(JsNull, TRUE, JsNull)
    /\ UiFrame

\* axios.post resolves: setResults, then finally
PostResolves ==
    /\ \E i \in Outstanding, r \in { x \in PostReplies : x.kind = "ok" } :
        /\ calls' = [calls EXCEPT ![i] = [@ EXCEPT !.pending = FALSE, !.reply = r]]
        /\ vals' = [vals EXCEPT !.results = r.data, !.loading = FALSE]
    /\ UNCHANGED bodyUrl
    /\ UiFrame

\* axios.post rejects: the catch calls setError, then finally
PostRejects ==
    /\ \E i \in Outstanding, r \in { x \in PostReplies : x.kind = "error" } :
        /\ calls' = [calls EXCEPT ![i] = [@ EXCEPT !.pending = FALSE, !.reply = r]]
        /\ vals' = [vals EXCEPT !.error = ErrorText(entry, Caught(entry, r)),
                                !.loading = FALSE]
    /\ UNCHANGED bodyUrl
    /\ UiFrame

NextUi == Submit \/ PostResolves \/ PostRejects
SpecUi == InitUi /\ [][NextUi]_vars

\* C30: loading is true exactly while a request is outstanding; results and
\* error are both null from the start of a request until it is handled; once
\* the request is handled exactly one of them is set, results after a
\* success and error after a failure; the submit control is disabled while
\* loading, so at most one request is outstanding.
C30_LoadingBracketsRequest ==
    /\ vals.loading = (Outstanding # {})
    /\ Disabled = vals.loading
    /\ Cardinality(Outstanding) <= 1
    /\ Outstanding # {} => (vals.results = JsNull /\ vals.error = JsNull)
    /\ (Outstanding = {} /\ calls # <<>>) =>
         LET last == calls[Len(calls)].reply
         IN  /\ (vals.results # JsNull) # (vals.error # JsNull)
             /\ last.kind = "ok" => vals.results = last.data
             /\ last.kind = "error" => (vals.error # JsNull /\ Truthy(vals.error))

\* a second request failed after a first one succeeded: the earlier results
\* are gone and the error is shown
C30_Witness ==
    /\ Len(calls) = 2 /\ Outstanding = {}
    /\ calls[1].reply.kind = "ok" /\ calls[2].reply.kind = "error"
    /\ ~vals.loading /\ vals.results = JsNull /\ vals.error # JsNull

====
